---- MODULE Spec2Model ----
(***************************************************************************)
(* Model of the schema.gov.it MCP server (src/src/index.ts): the input     *)
(* sanitizers, the SPARQL executor, result compression, output truncation, *)
(* the dispatch boundary executeTool and the tools registered on it.       *)
(***************************************************************************)
EXTENDS Integers, Sequences, FiniteSets, TLC

(***************************************************************************)
(* TEXT.  A JavaScript string is a sequence of chunks [c, n]: the first n  *)
(* characters of c repeated indefinitely.  A brace, a bracket, a quote, a  *)
(* backslash, a digit, a newline, and a comma or colon of JSON syntax is a *)
(* chunk of its own; c is otherwise a word of ordinary characters, so that *)
(* a long run of one character and a key such as headers are one chunk     *)
(* each.                                                                   *)
(***************************************************************************)
Ch(c) == [c |-> c, n |-> 1]
Word(w, k) == [c |-> w, n |-> k]

DigitChars == <<"0", "1", "2", "3", "4", "5", "6", "7", "8", "9">>
DigitSet == {DigitChars[i] : i \in 1..10}
DigitValue(c) == (CHOOSE i \in 1..10 : DigitChars[i] = c) - 1

\* Characters that are never folded into a word.
MarkChars == {"{", "}", "[", "]", ",", ":", "\"", "\\", "\n", "\r"} \cup DigitSet

\* String.prototype.length (the sum is split in halves to keep it shallow)
RECURSIVE TextLen(_)
TextLen(t) ==
  IF Len(t) = 0 THEN 0
  ELSE IF Len(t) = 1 THEN t[1].n
  ELSE LET m == Len(t) \div 2
       IN TextLen(SubSeq(t, 1, m)) + TextLen(SubSeq(t, m + 1, Len(t)))

\* String.prototype.slice(0, k)
RECURSIVE Slice(_, _)
Slice(t, k) ==
  IF k <= 0 \/ Len(t) = 0 THEN <<>>
  ELSE IF Len(t) = 1 THEN <<[c |-> t[1].c, n |-> IF t[1].n <= k THEN t[1].n ELSE k]>>
  ELSE LET m == Len(t) \div 2
           left == SubSeq(t, 1, m)
           n == TextLen(left)
       IN IF k <= n THEN Slice(left, k)
          ELSE left \o Slice(SubSeq(t, m + 1, Len(t)), k - n)

\* String.prototype.lastIndexOf(ch) for a mark character ch; -1 when absent.
LastIndexOf(t, ch) ==
  LET S == {i \in DOMAIN t : t[i].c = ch}
      last == CHOOSE i \in S : \A j \in S : j <= i
  IN IF S = {} THEN -1 ELSE TextLen(SubSeq(t, 1, last)) - 1

\* One chunk per mark character (a run of k braces is k chunks).
RECURSIVE Explode(_)
Explode(t) ==
  IF Len(t) = 0 THEN <<>>
  ELSE IF Len(t) = 1
    THEN IF t[1].c \in MarkChars /\ t[1].n > 1 THEN [i \in 1..t[1].n |-> Ch(t[1].c)] ELSE t
  ELSE LET m == Len(t) \div 2
       IN Explode(SubSeq(t, 1, m)) \o Explode(SubSeq(t, m + 1, Len(t)))

\* The text of a sequence of one-character strings.
RECURSIVE TextOf(_)
TextOf(chars) ==
  IF chars = <<>> THEN <<>> ELSE <<Ch(Head(chars))>> \o TextOf(Tail(chars))

(***************************************************************************)
(* JSON VALUES.  null, booleans, non-negative integers, NaN, strings (a    *)
(* text), arrays and objects (an ordered sequence of <<key text, value>>). *)
(***************************************************************************)
JNull == [t |-> "null"]
JBool(b) == [t |-> "bool", b |-> b]
JNum(k) == [t |-> "num", k |-> k]
JNaN == [t |-> "nan"]
JStr(s) == [t |-> "str", s |-> s]
JArr(items) == [t |-> "arr", items |-> items]
JObj(members) == [t |-> "obj", members |-> members]
Key(w, k) == <<Word(w, k)>>

RECURSIVE Digits(_)
Digits(k) ==
  IF k < 10 THEN <<Ch(DigitChars[k + 1])>>
  ELSE Digits(k \div 10) \o <<Ch(DigitChars[(k % 10) + 1])>>

\* The escapes JSON.stringify applies inside a string.
RECURSIVE JsonEscape(_)
JsonEscape(s) ==
  IF s = <<>> THEN <<>>
  ELSE LET h == Head(s)
           rest == IF h.n > 1 THEN <<[c |-> h.c, n |-> h.n - 1]>> \o Tail(s) ELSE Tail(s)
       IN CASE h.c = "\"" -> <<Ch("\\"), Ch("\"")>> \o JsonEscape(rest)
            [] h.c = "\\" -> <<Ch("\\"), Ch("\\")>> \o JsonEscape(rest)
            [] h.c = "\n" -> <<Ch("\\"), Ch("n")>> \o JsonEscape(rest)
            [] h.c = "\r" -> <<Ch("\\"), Ch("r")>> \o JsonEscape(rest)
            [] OTHER -> <<h>> \o JsonEscape(Tail(s))

JsonQuote(s) == <<Ch("\"")>> \o JsonEscape(s) \o <<Ch("\"")>>

\* JSON.stringify(value), without indentation.
RECURSIVE JSONstringify(_), StringifyItems(_), StringifyMembers(_)
JSONstringify(v) ==
  CASE v.t = "null" -> <<Word("null", 4)>>
    [] v.t = "nan" -> <<Word("null", 4)>>
    [] v.t = "bool" -> IF v.b THEN <<Word("true", 4)>> ELSE <<Word("false", 5)>>
    [] v.t = "num" -> Digits(v.k)
    [] v.t = "str" -> JsonQuote(v.s)
    [] v.t = "arr" -> <<Ch("[")>> \o StringifyItems(v.items) \o <<Ch("]")>>
    [] v.t = "obj" -> <<Ch("{")>> \o StringifyMembers(v.members) \o <<Ch("}")>>

StringifyItems(items) ==
  IF items = <<>> THEN <<>>
  ELSE JSONstringify(Head(items))
       \o (IF Len(items) > 1 THEN <<Ch(",")>> \o StringifyItems(Tail(items)) ELSE <<>>)

StringifyMembers(ms) ==
  IF ms = <<>> THEN <<>>
  ELSE JsonQuote(Head(ms)[1]) \o <<Ch(":")>> \o JSONstringify(Head(ms)[2])
       \o (IF Len(ms) > 1 THEN <<Ch(",")>> \o StringifyMembers(Tail(ms)) ELSE <<>>)

(***************************************************************************)
(* JSON.parse: a recursive-descent parser of the JSON grammar over the     *)
(* exploded text.  Each parser returns [ok, v, i]: success, the value and  *)
(* the index of the first chunk not consumed.                              *)
(***************************************************************************)
ParseFail == [ok |-> FALSE, v |-> JNull, i |-> 0]
ParseOk(v, i) == [ok |-> TRUE, v |-> v, i |-> i]
At(t, i) == IF i \in DOMAIN t THEN t[i].c ELSE "<end>"

RECURSIVE ParseValue(_, _), ParseString(_, _, _), ParseNumber(_, _, _),
          ParseItems(_, _, _), ParseMembers(_, _, _)

ParseString(t, i, acc) ==
  LET c == At(t, i) IN
  CASE c = "<end>" -> ParseFail
    [] c = "\"" -> ParseOk(JStr(acc), i + 1)
    [] c \in {"\n", "\r"} -> ParseFail
    [] c = "\\" ->
        LET e == At(t, i + 1) IN
        IF e \in {"\"", "\\"} THEN ParseString(t, i + 2, acc \o <<Ch(e)>>)
        ELSE IF e \in {"n", "r"} THEN
          ParseString(t, i + 2,
            acc \o <<Ch(IF e = "n" THEN "\n" ELSE "\r")>>
                \o (IF t[i + 1].n > 1 THEN <<[c |-> e, n |-> t[i + 1].n - 1]>> ELSE <<>>))
        ELSE ParseFail
    [] OTHER -> ParseString(t, i + 1, acc \o <<t[i]>>)

\* digits after the first one; a leading zero takes no further digit
ParseNumber(t, i, k) ==
  IF At(t, i) \in DigitSet THEN ParseNumber(t, i + 1, 10 * k + DigitValue(At(t, i)))
  ELSE ParseOk(JNum(k), i)

\* after "[" or after a comma; acc holds the items read so far
ParseItems(t, i, acc) ==
  IF At(t, i) = "]" /\ acc = <<>> THEN ParseOk(JArr(<<>>), i + 1)
  ELSE LET r == ParseValue(t, i) IN
    IF ~r.ok THEN ParseFail
    ELSE CASE At(t, r.i) = "," -> ParseItems(t, r.i + 1, acc \o <<r.v>>)
           [] At(t, r.i) = "]" -> ParseOk(JArr(acc \o <<r.v>>), r.i + 1)
           [] OTHER -> ParseFail

\* after "{" or after a comma; acc holds the members read so far
ParseMembers(t, i, acc) ==
  IF At(t, i) = "}" /\ acc = <<>> THEN ParseOk(JObj(<<>>), i + 1)
  ELSE IF At(t, i) # "\"" THEN ParseFail
  ELSE LET k == ParseString(t, i + 1, <<>>) IN
    IF ~k.ok \/ At(t, k.i) # ":" THEN ParseFail
    ELSE LET r == ParseValue(t, k.i + 1) IN
      IF ~r.ok THEN ParseFail
      ELSE CASE At(t, r.i) = "," -> ParseMembers(t, r.i + 1, acc \o <<<<k.v.s, r.v>>>>)
             [] At(t, r.i) = "}" -> ParseOk(JObj(acc \o <<<<k.v.s, r.v>>>>), r.i + 1)
             [] OTHER -> ParseFail

ParseValue(t, i) ==
  LET c == At(t, i) IN
  CASE c = "{" -> ParseMembers(t, i + 1, <<>>)
    [] c = "[" -> ParseItems(t, i + 1, <<>>)
    [] c = "\"" -> ParseString(t, i + 1, <<>>)
    [] c = "null" /\ t[i].n = 4 -> ParseOk(JNull, i + 1)
    [] c = "true" /\ t[i].n = 4 -> ParseOk(JBool(TRUE), i + 1)
    [] c = "false" /\ t[i].n = 5 -> ParseOk(JBool(FALSE), i + 1)
    [] c = "0" -> ParseOk(JNum(0), i + 1)
    [] c \in DigitSet \ {"0"} -> ParseNumber(t, i + 1, DigitValue(c))
    [] OTHER -> ParseFail

\* JSON.parse(text): [ok, v]; ok = FALSE is the SyntaxError it throws.
JSONparse(text) ==
  LET t == Explode(text)
      r == ParseValue(t, 1)
  IN IF r.ok /\ r.i = Len(t) + 1 THEN [ok |-> TRUE, v |-> r.v]
     ELSE [ok |-> FALSE, v |-> JNull]

(***************************************************************************)
(* INPUT SANITIZERS.  A caller-supplied string is a sequence of            *)
(* one-character strings.                                                  *)
(***************************************************************************)
\* String.prototype.replace(/ch/g, rep): every occurrence, left to right.
RECURSIVE ReplaceAll(_, _, _)
ReplaceAll(s, ch, rep) ==
  IF s = <<>> THEN <<>>
  ELSE (IF Head(s) = ch THEN rep ELSE <<Head(s)>>) \o ReplaceAll(Tail(s), ch, rep)

\* the backslash escaped last, after the escapes that write backslashes
sanitizeSparqlString_BackslashLast(input) ==
  ReplaceAll(ReplaceAll(ReplaceAll(ReplaceAll(input,
    "\"", <<"\\", "\"">>), "\n", <<"\\", "n">>), "\r", <<"\\", "r">>), "\\", <<"\\", "\\">>)

\* A plausible slip: the quote is escaped before the backslash.
sanitizeSparqlString_QuoteFirst(input) ==
  ReplaceAll(ReplaceAll(ReplaceAll(ReplaceAll(input,
    "\"", <<"\\", "\"">>), "\\", <<"\\", "\\">>), "\n", <<"\\", "n">>), "\r", <<"\\", "r">>)

sanitizeSparqlString(input) ==
  ReplaceAll(ReplaceAll(ReplaceAll(ReplaceAll(input,
    "\\", <<"\\", "\\">>), "\"", <<"\\", "\"">>), "\n", <<"\\", "n">>), "\r", <<"\\", "r">>)

\* The grave accent, which a TLA+ string cannot hold, under a name.
Backtick == "<backtick>"

\* \s of the regular expression, over the characters of the model
Whitespace == {" ", "\t", "\n", "\r"}
\* the characters the negated class of the regular expression excludes
UriExcluded == Whitespace \cup {"<", ">", "\"", "{", "}", "|", "\\", "^", Backtick}

StartsWith(s, p) == Len(s) >= Len(p) /\ SubSeq(s, 1, Len(p)) = p

\* the regular expression test: ^ http, an optional s, ://, one or more
\* characters outside the excluded class, $
UriRegexTest(input) ==
  \E p \in {<<"h", "t", "t", "p", ":", "/", "/">>, <<"h", "t", "t", "p", "s", ":", "/", "/">>} :
    /\ StartsWith(input, p)
    /\ Len(input) > Len(p)
    /\ \A i \in (Len(p) + 1)..Len(input) : input[i] \notin UriExcluded

\* A plausible slip: the class forgets the backslash and the quote.
sanitizeSparqlUri_WeakClass(input) ==
  IF \E p \in {<<"h", "t", "t", "p", ":", "/", "/">>, <<"h", "t", "t", "p", "s", ":", "/", "/">>} :
       /\ StartsWith(input, p)
       /\ Len(input) > Len(p)
       /\ \A i \in (Len(p) + 1)..Len(input) : input[i] \notin (UriExcluded \ {"\\", "\""})
    THEN [ok |-> TRUE, v |-> input]
    ELSE [ok |-> FALSE, v |-> <<>>]

\* [ok, v]: ok = FALSE is the Error("Invalid URI: ...") it throws.
sanitizeSparqlUri(input) ==
  IF UriRegexTest(input) THEN [ok |-> TRUE, v |-> input] ELSE [ok |-> FALSE, v |-> <<>>]

InvalidUriMessage(input) == <<Word("Invalid URI: ", 13)>> \o TextOf(input)

(***************************************************************************)
(* SPARQL RESULTS.  A SparqlResult as response.json() returns it:          *)
(* shaped = the body has results.bindings, hasVars = it has head.vars.     *)
(* A binding row is an ordered sequence of [k, b]: variable name (a text)  *)
(* and binding value [type, value]; a variable absent from a row is        *)
(* unbound in it.                                                          *)
(***************************************************************************)
CHARACTER_LIMIT == 50000
\* compressSparqlResult, list_municipalities and list_provinces switch to
\* the tabular shape above this many rows
TabularThreshold == 5

Binding(value) == [type |-> "literal", value |-> value]
\* a binding with a language tag, and one with a datatype
LangBinding(value) == [type |-> "literal", value |-> value, lang |-> "it"]
TypedBinding(value) == [type |-> "literal", value |-> value, datatype |-> "xsd:string"]
\* a variable the row maps to JSON null
NullBinding == [type |-> "null", value |-> <<>>]
\* if (bindingValue), and the b[h]? of b[h]?.value
IsBinding(cell) == cell.b.type # "null"
Cell(var, value) == [k |-> var, b |-> Binding(value)]
SparqlResult(vars, bindings) ==
  [shaped |-> TRUE, hasVars |-> TRUE, vars |-> vars, bindings |-> bindings]
\* a JSON body that is no SPARQL result at all, such as {}
Shapeless == [shaped |-> FALSE, hasVars |-> FALSE, vars |-> <<>>, bindings |-> <<>>]

HasVar(row, var) == \E i \in DOMAIN row : row[i].k = var /\ IsBinding(row[i])
\* the cells of a row the for-in loop copies, in the row's key order
BoundCells(row) == SelectSeq(row, IsBinding)
\* row[var]?.value, defined when HasVar(row, var)
ValueOf(row, var) == row[CHOOSE i \in DOMAIN row : row[i].k = var].b.value
\* result.results?.bindings ?? []
BindingsOf(result) == IF result.shaped THEN result.bindings ELSE <<>>
\* result.results?.bindings?.length ?? 0
RowCountOf(result) == Len(BindingsOf(result))
\* a JavaScript string is truthy when it is not empty
Truthy(text) == text # <<>>

\* the tabular shape from five rows on
compressSparqlResult_FromFive(result) ==
  IF ~result.shaped THEN JArr(<<>>)
  ELSE LET bindings == result.bindings IN
    IF Len(bindings) = 0 THEN JArr(<<>>)
    ELSE IF Len(bindings) >= TabularThreshold THEN
      LET headers == IF result.hasVars THEN result.vars
                     ELSE [i \in DOMAIN bindings[1] |-> bindings[1][i].k]
      IN JObj(<< <<Key("headers", 7), JArr([i \in DOMAIN headers |-> JStr(headers[i])])>>,
                 <<Key("rows", 4),
                   JArr([r \in DOMAIN bindings |->
                     JArr([i \in DOMAIN headers |->
                       IF HasVar(bindings[r], headers[i])
                         THEN JStr(ValueOf(bindings[r], headers[i]))
                         ELSE JNull])])>> >>)
    ELSE JArr([r \in DOMAIN bindings |->
           LET row == BoundCells(bindings[r]) IN
           JObj([i \in DOMAIN row |-> <<row[i].k, JStr(row[i].b.value)>>])])

\* tabular rows that hold the bound values only, without a null for an
\* unbound variable
compressSparqlResult_BoundOnly(result) ==
  IF ~result.shaped THEN JArr(<<>>)
  ELSE LET bindings == result.bindings IN
    IF Len(bindings) = 0 THEN JArr(<<>>)
    ELSE IF Len(bindings) > TabularThreshold THEN
      LET headers == IF result.hasVars THEN result.vars
                     ELSE [i \in DOMAIN bindings[1] |-> bindings[1][i].k]
      IN JObj(<< <<Key("headers", 7), JArr([i \in DOMAIN headers |-> JStr(headers[i])])>>,
                 <<Key("rows", 4),
                   JArr([r \in DOMAIN bindings |->
                     LET row == BoundCells(bindings[r]) IN
                     JArr([i \in DOMAIN row |-> JStr(row[i].b.value)])])>> >>)
    ELSE JArr([r \in DOMAIN bindings |->
           LET row == BoundCells(bindings[r]) IN
           JObj([i \in DOMAIN row |-> <<row[i].k, JStr(row[i].b.value)>>])])

\* records that hold a key for every cell of the row, null when the cell is
\* not bound
compressSparqlResult_NullKeys(result) ==
  IF ~result.shaped THEN JArr(<<>>)
  ELSE LET bindings == result.bindings IN
    IF Len(bindings) = 0 THEN JArr(<<>>)
    ELSE IF Len(bindings) > TabularThreshold THEN
      LET headers == IF result.hasVars THEN result.vars
                     ELSE [i \in DOMAIN bindings[1] |-> bindings[1][i].k]
      IN JObj(<< <<Key("headers", 7), JArr([i \in DOMAIN headers |-> JStr(headers[i])])>>,
                 <<Key("rows", 4),
                   JArr([r \in DOMAIN bindings |->
                     JArr([i \in DOMAIN headers |->
                       IF HasVar(bindings[r], headers[i])
                         THEN JStr(ValueOf(bindings[r], headers[i]))
                         ELSE JNull])])>> >>)
    ELSE JArr([r \in DOMAIN bindings |->
           JObj([i \in DOMAIN bindings[r] |->
             <<bindings[r][i].k,
               IF IsBinding(bindings[r][i]) THEN JStr(bindings[r][i].b.value) ELSE JNull>>])])

compressSparqlResult(result) ==
  IF ~result.shaped THEN JArr(<<>>)
  ELSE LET bindings == result.bindings IN
    IF Len(bindings) = 0 THEN JArr(<<>>)
    ELSE IF Len(bindings) > TabularThreshold THEN
      LET headers == IF result.hasVars THEN result.vars
                     ELSE [i \in DOMAIN bindings[1] |-> bindings[1][i].k]
      IN JObj(<< <<Key("headers", 7), JArr([i \in DOMAIN headers |-> JStr(headers[i])])>>,
                 <<Key("rows", 4),
                   JArr([r \in DOMAIN bindings |->
                     JArr([i \in DOMAIN headers |->
                       IF HasVar(bindings[r], headers[i])
                         THEN JStr(ValueOf(bindings[r], headers[i]))
                         ELSE JNull])])>> >>)
    ELSE JArr([r \in DOMAIN bindings |->
           LET row == BoundCells(bindings[r]) IN
           JObj([i \in DOMAIN row |-> <<row[i].k, JStr(row[i].b.value)>>])])

(***************************************************************************)
(* OUTPUT TRUNCATION                                                       *)
(***************************************************************************)
\* a cut that keeps one character too many
truncateResult_OffByOne(text) ==
  IF TextLen(text) <= CHARACTER_LIMIT + 1 THEN [text |-> text, truncated |-> FALSE]
  ELSE [text |-> Slice(text, CHARACTER_LIMIT + 1), truncated |-> TRUE]

\* the comparison made strict
truncateResult_Strict(text) ==
  IF TextLen(text) < CHARACTER_LIMIT THEN [text |-> text, truncated |-> FALSE]
  ELSE [text |-> Slice(text, CHARACTER_LIMIT), truncated |-> TRUE]

truncateResult(text) ==
  IF TextLen(text) <= CHARACTER_LIMIT THEN [text |-> text, truncated |-> FALSE]
  ELSE [text |-> Slice(text, CHARACTER_LIMIT), truncated |-> TRUE]

\* `Result exceeded ${CHARACTER_LIMIT} characters and was truncated`
TruncationMessage ==
  <<Word("Result exceeded ", 16)>> \o Digits(CHARACTER_LIMIT)
    \o <<Word(" characters and was truncated", 29)>>

\* text.slice(0, text.lastIndexOf("}") + 1) || "null"
TruncatedPrefix(text) ==
  LET cut == Slice(text, LastIndexOf(text, "}") + 1)
  IN IF cut = <<>> THEN <<Word("null", 4)>> ELSE cut

\* the marker object executeTool serializes around the parsed prefix
TruncationMarker(data) ==
  JObj(<< <<Key("_truncated", 10), JBool(TRUE)>>,
          <<Key("_message", 8), JStr(TruncationMessage)>>,
          <<Key("data", 4), data>> >>)

(***************************************************************************)
(* PAGINATION                                                              *)
(***************************************************************************)
\* parseInt(text, 10): the leading decimal digits, NaN when there are none
RECURSIVE LeadingDigits(_, _)
LeadingDigits(t, k) ==
  IF t # <<>> /\ Head(t).c \in DigitSet /\ Head(t).n = 1
    THEN LeadingDigits(Tail(t), 10 * k + DigitValue(Head(t).c))
    ELSE k
parseInt(text) ==
  IF text # <<>> /\ Head(text).c \in DigitSet THEN JNum(LeadingDigits(text, 0)) ELSE JNaN

VarTotal == <<Word("total", 5)>>
\* parseInt(countResult.results?.bindings?.[0]?.total?.value ?? "0", 10)
TotalOf(countResult) ==
  LET rows == BindingsOf(countResult) IN
  IF Len(rows) > 0 /\ HasVar(rows[1], VarTotal)
    THEN parseInt(ValueOf(rows[1], VarTotal)) ELSE JNum(0)

\* a < total in JavaScript: false when total is NaN
LessThanTotal(a, total) == total.t = "num" /\ a < total.k

\* { total, count, offset, has_more: offset + step < total,
\*   next_offset: offset + step < total ? offset + step : null }
PaginationInfo(total, count, offset, step) ==
  JObj(<< <<Key("total", 5), total>>,
          <<Key("count", 5), JNum(count)>>,
          <<Key("offset", 6), JNum(offset)>>,
          <<Key("has_more", 8), JBool(LessThanTotal(offset + step, total))>>,
          <<Key("next_offset", 11),
            IF LessThanTotal(offset + step, total) THEN JNum(offset + step) ELSE JNull>> >>)

\* the member of a JSON object under a key
Member(obj, key) ==
  obj.members[CHOOSE i \in DOMAIN obj.members : obj.members[i][1] = key][2]

(***************************************************************************)
(* QUERY TEXT.  A query is the handler's template literal with its holes   *)
(* in order.  A hole records the argument it comes from, the context it    *)
(* is written into (inside <...>, inside "...", a bare number, or the      *)
(* whole query), the sanitizer it went through and the text written.       *)
(***************************************************************************)
\* String(k) for a non-negative integer, as characters
RECURSIVE NumChars(_)
NumChars(k) ==
  IF k < 10 THEN <<DigitChars[k + 1]>>
  ELSE NumChars(k \div 10) \o <<DigitChars[(k % 10) + 1]>>

Min(a, b) == IF a < b THEN a ELSE b

Hole(name, ctx, via, arg, text) ==
  [name |-> name, ctx |-> ctx, via |-> via, arg |-> arg, text |-> text]
\* <${safeUri}> with safeUri = sanitizeSparqlUri(arg)
UriHole(name, arg) == Hole(name, "uri", "sanitizeSparqlUri", arg, sanitizeSparqlUri(arg).v)
\* "${safeUri}": the sanitized URI inside a quoted literal
UriInLiteralHole(name, arg) ==
  Hole(name, "literal", "sanitizeSparqlUri", arg, sanitizeSparqlUri(arg).v)
\* the argument written into the quotes as it came
LiteralHole_Unsanitized(name, arg) == Hole(name, "literal", "none", arg, arg)
\* "${sanitizeSparqlString(arg)}"
LiteralHole(name, arg) ==
  Hole(name, "literal", "sanitizeSparqlString", arg, sanitizeSparqlString(arg))
\* LIMIT ${limit}, OFFSET ${offset}: the number as given; written is the
\* number interpolated (safeLimit for list_municipalities)
NumberHole(name, given, written) ==
  Hole(name, "number", "none", NumChars(given), NumChars(written))
\* query_sparql: the caller's query is the query
RawQueryHole(name, arg) == Hole(name, "query", "none", arg, arg)

Query(template, holes) == [template |-> template, holes |-> holes]
Opt(cond, holes) == IF cond THEN holes ELSE <<>>

\* Math.min(limit, 500)
MaxMunicipalityLimit == 500
SafeLimit(limit) == Min(limit, MaxMunicipalityLimit)

\* find_relations validating its source URI only
UriInputs_SourceOnly(tool, a) ==
  CASE tool = "check_coverage" -> Opt(Truthy(a.uri), <<a.uri>>)
    [] tool \in {"explore_ontology", "search_in_vocabulary", "explore_dataset",
                 "inspect_concept", "get_property_details", "browse_vocabulary",
                 "describe_resource", "find_relations"} -> <<a.uri>>
    [] tool = "list_properties" -> Opt(Truthy(a.uri), <<a.uri>>)
    [] OTHER -> <<>>

\* The sanitizeSparqlUri calls a handler makes before it enters executeTool,
\* in order.
UriInputs(tool, a) ==
  CASE tool = "check_coverage" -> Opt(Truthy(a.uri), <<a.uri>>)
    [] tool \in {"explore_ontology", "search_in_vocabulary", "explore_dataset",
                 "inspect_concept", "get_property_details", "browse_vocabulary",
                 "describe_resource"} -> <<a.uri>>
    [] tool = "find_relations" -> <<a.uri, a.uri2>>
    [] tool = "list_properties" -> Opt(Truthy(a.uri), <<a.uri>>)
    [] OTHER -> <<>>

\* The queries a handler hands to executeSparql, in the order it calls it.
ToolQueries(tool, a) ==
  LET kw == Opt(Truthy(a.keyword), <<LiteralHole("keyword", a.keyword)>>)
      lim == <<NumberHole("limit", a.limit, a.limit)>>
      off == <<NumberHole("offset", a.offset, a.offset)>>
      safeLim == <<NumberHole("limit", a.limit, SafeLimit(a.limit))>>
      uri == UriHole("uri", a.uri)
  IN
  CASE tool = "query_sparql" -> <<Query("query", <<RawQueryHole("query", a.query)>>)>>
    [] tool = "explore_classes" ->
         <<Query("classes", Opt(Truthy(a.keyword), <<LiteralHole("filter", a.keyword)>>) \o lim)>>
    [] tool = "explore_catalog" -> <<Query("graphs", <<>>), Query("ontologies", <<>>)>>
    [] tool = "check_coverage" ->
         IF Truthy(a.uri) THEN <<Query("coverage of", <<uri, uri, uri>>)>>
         ELSE <<Query("coverage", <<>>)>>
    [] tool \in {"check_quality", "check_overlaps", "list_ontologies", "list_vocabularies"} ->
         <<Query(tool, lim)>>
    [] tool = "explore_ontology" ->
         <<Query("ontology", <<UriInLiteralHole("ontologyUri", a.uri)>>)>>
    [] tool = "search_in_vocabulary" ->
         <<Query("search in vocabulary",
                 <<UriHole("schemeUri", a.uri), LiteralHole("keyword", a.keyword)>> \o lim)>>
    [] tool = "list_datasets" ->
         <<Query("datasets", lim \o off), Query("datasets count", <<>>)>>
    [] tool = "explore_dataset" ->
         <<Query("dataset metadata", <<uri>>), Query("dataset distributions", <<uri, uri>>)>>
    [] tool = "search_concepts" ->
         <<Query("concepts", <<LiteralHole("keyword", a.keyword)>> \o lim)>>
    [] tool = "inspect_concept" ->
         <<Query("definition", <<uri>>), Query("hierarchy", <<uri, uri, uri>>),
           Query("usage", <<uri>>), Query("incoming", <<uri>>), Query("outgoing", <<uri>>)>>
    [] tool = "find_relations" ->
         <<Query("relations", <<UriHole("sourceUri", a.uri), UriHole("targetUri", a.uri2),
                                UriHole("sourceUri", a.uri), UriHole("targetUri", a.uri2)>>)>>
    [] tool = "suggest_improvements" -> <<Query("lonely", lim), Query("cycles", lim)>>
    [] tool = "list_properties" ->
         <<Query("properties",
                 Opt(Truthy(a.uri), <<UriInLiteralHole("ontologyUri", a.uri)>>) \o lim)>>
    [] tool = "get_property_details" -> <<Query("property", <<uri>>)>>
    [] tool = "browse_vocabulary" ->
         <<Query("vocabulary", <<UriHole("schemeUri", a.uri)>> \o kw \o lim \o off),
           Query("vocabulary count", <<UriHole("schemeUri", a.uri)>> \o kw)>>
    [] tool = "describe_resource" ->
         <<Query(IF a.depth = 2 THEN "describe linked" ELSE "describe", <<uri>>)>>
    [] tool = "list_municipalities" ->
         IF a.withBelfiore
           THEN <<Query("city names", kw \o safeLim \o off),
                  Query("city belfiore", safeLim \o off),
                  Query("city count", kw)>>
           ELSE <<Query("cities", kw \o safeLim \o off), Query("city count", kw)>>
    [] tool = "list_provinces" ->
         <<Query("province names", kw), Query("province sigla", <<>>),
           Query("province metro", <<>>)>>
    [] tool = "list_identifiers" ->
         IF ~Truthy(a.keyword) THEN <<Query("identifier types", <<>>)>>
         ELSE <<Query("identifiers", <<LiteralHole("identifierType", a.keyword)>> \o lim)>>

(***************************************************************************)
(* MULTI-SOURCE RECONCILIATION (list_municipalities withBelfiore,          *)
(* list_provinces).  A JavaScript object used as a map is a sequence of    *)
(* entries in insertion order; assigning to a key that exists replaces     *)
(* the entry in place.                                                     *)
(***************************************************************************)
VarNotation == <<Word("notation", 8)>>
VarName == <<Word("name", 4)>>
VarBelfiore == <<Word("belfiore", 8)>>
VarSigla == <<Word("sigla", 5)>>
VarMetro == <<Word("metro", 5)>>

HasKey(map, key) == \E i \in DOMAIN map : map[i].notation = key
Get(map, key) == map[CHOOSE i \in DOMAIN map : map[i].notation = key]
\* map[entry.notation] = entry
Put(map, entry) ==
  IF HasKey(map, entry.notation)
    THEN [i \in DOMAIN map |-> IF map[i].notation = entry.notation THEN entry ELSE map[i]]
    ELSE Append(map, entry)

\* row[var]?.value is a non-empty string
Bound(row, var) == HasVar(row, var) /\ Truthy(ValueOf(row, var))

\* for (const b of rows) { if (notation && value) lookup[notation] = value }
RECURSIVE BuildLookup(_, _, _)
BuildLookup(rows, var, acc) ==
  IF rows = <<>> THEN acc
  ELSE LET b == Head(rows) IN
    BuildLookup(Tail(rows), var,
      IF Bound(b, VarNotation) /\ Bound(b, var)
        THEN Put(acc, [notation |-> ValueOf(b, VarNotation), value |-> ValueOf(b, var)])
        ELSE acc)

\* a later name of the same length replaces the one kept
KeepsLonger_OrEqual(map, notation, name) ==
  ~HasKey(map, notation) \/ TextLen(name) >= TextLen(Get(map, notation).name)

\* !existing || name.length > existing.name.length
KeepsLonger(map, notation, name) ==
  ~HasKey(map, notation) \/ TextLen(name) > TextLen(Get(map, notation).name)

\* cityMap of list_municipalities: the longest name per notation
RECURSIVE CityMap(_, _, _)
CityMap(rows, belfioreLookup, acc) ==
  IF rows = <<>> THEN acc
  ELSE LET row == Head(rows) IN
    IF ~(Bound(row, VarNotation) /\ Bound(row, VarName))
      THEN CityMap(Tail(rows), belfioreLookup, acc)
    ELSE LET notation == ValueOf(row, VarNotation)
             name == ValueOf(row, VarName)
             entry == [notation |-> notation, name |-> name,
                       hasBelfiore |-> HasKey(belfioreLookup, notation),
                       belfiore |-> IF HasKey(belfioreLookup, notation)
                                      THEN Get(belfioreLookup, notation).value ELSE <<>>]
         IN CityMap(Tail(rows), belfioreLookup,
                    IF KeepsLonger(acc, notation, name) THEN Put(acc, entry) ELSE acc)

\* provMap of list_provinces: sigla and metro are null when not found
RECURSIVE ProvMap(_, _, _, _)
ProvMap(rows, siglaLookup, metroLookup, acc) ==
  IF rows = <<>> THEN acc
  ELSE LET row == Head(rows) IN
    IF ~(Bound(row, VarNotation) /\ Bound(row, VarName))
      THEN ProvMap(Tail(rows), siglaLookup, metroLookup, acc)
    ELSE LET notation == ValueOf(row, VarNotation)
             name == ValueOf(row, VarName)
             entry == [notation |-> notation, name |-> name,
                       sigla |-> IF HasKey(siglaLookup, notation)
                                   THEN JStr(Get(siglaLookup, notation).value) ELSE JNull,
                       metro |-> IF HasKey(metroLookup, notation)
                                   THEN JStr(Get(metroLookup, notation).value) ELSE JNull]
         IN ProvMap(Tail(rows), siglaLookup, metroLookup,
                    IF KeepsLonger(acc, notation, name) THEN Put(acc, entry) ELSE acc)

\* a.localeCompare(b) < 0 for strings of decimal digits: character by
\* character, a proper prefix first
RECURSIVE LocaleBefore(_, _)
LocaleBefore(a, b) ==
  IF a = <<>> THEN b # <<>>
  ELSE IF b = <<>> THEN FALSE
  ELSE IF Head(a).c = Head(b).c THEN LocaleBefore(Tail(a), Tail(b))
  ELSE DigitValue(Head(a).c) < DigitValue(Head(b).c)

RECURSIVE InsertByNotation(_, _)
InsertByNotation(sorted, entry) ==
  IF sorted = <<>> THEN <<entry>>
  ELSE IF LocaleBefore(entry.notation, Head(sorted).notation) THEN <<entry>> \o sorted
  ELSE <<Head(sorted)>> \o InsertByNotation(Tail(sorted), entry)

\* the records left in the order the map holds them
SortByNotation_Unsorted(entries) == entries

\* Object.values(map).sort((a, b) => a.notation.localeCompare(b.notation))
RECURSIVE SortByNotation(_)
SortByNotation(entries) ==
  IF entries = <<>> THEN <<>>
  ELSE InsertByNotation(SortByNotation(SubSeq(entries, 1, Len(entries) - 1)),
                        entries[Len(entries)])

Municipalities(namesResult, belfioreResult) ==
  SortByNotation(CityMap(BindingsOf(namesResult),
                         BuildLookup(BindingsOf(belfioreResult), VarBelfiore, <<>>), <<>>))

Provinces(namesResult, siglaResult, metroResult) ==
  SortByNotation(ProvMap(BindingsOf(namesResult),
                         BuildLookup(BindingsOf(siglaResult), VarSigla, <<>>),
                         BuildLookup(BindingsOf(metroResult), VarMetro, <<>>), <<>>))

\* count > 5 ? { headers, rows } : municipalities
MunicipalitiesData(ms) ==
  IF Len(ms) > TabularThreshold
    THEN JObj(<< <<Key("headers", 7),
                   JArr(<<JStr(VarNotation), JStr(VarName), JStr(VarBelfiore)>>)>>,
                 <<Key("rows", 4),
                   JArr([i \in DOMAIN ms |->
                     JArr(<<JStr(ms[i].notation), JStr(ms[i].name),
                            IF ms[i].hasBelfiore THEN JStr(ms[i].belfiore) ELSE JNull>>)])>> >>)
    ELSE JArr([i \in DOMAIN ms |->
           JObj(<< <<VarNotation, JStr(ms[i].notation)>>, <<VarName, JStr(ms[i].name)>> >>
                \o Opt(ms[i].hasBelfiore, << <<VarBelfiore, JStr(ms[i].belfiore)>> >>))])

ProvincesData(ps) ==
  IF Len(ps) > TabularThreshold
    THEN JObj(<< <<Key("headers", 7),
                   JArr(<<JStr(VarNotation), JStr(VarName), JStr(VarSigla), JStr(VarMetro)>>)>>,
                 <<Key("rows", 4),
                   JArr([i \in DOMAIN ps |->
                     JArr(<<JStr(ps[i].notation), JStr(ps[i].name),
                            ps[i].sigla, ps[i].metro>>)])>> >>)
    ELSE JArr([i \in DOMAIN ps |->
           JObj(<< <<VarNotation, JStr(ps[i].notation)>>, <<VarName, JStr(ps[i].name)>>,
                   <<VarSigla, ps[i].sigla>>, <<VarMetro, ps[i].metro>> >>)])

(***************************************************************************)
(* HANDLERS.  What a handler returns once every executeSparql call it      *)
(* awaits has resolved; r is the sequence of their results, in call order. *)
(***************************************************************************)
ToolSuccess(data, rowCount) ==
  [success |-> TRUE, data |-> data, hasRowCount |-> TRUE, rowCount |-> rowCount]

\* offset + safeLimit in the withBelfiore pagination
BelfioreStep(a, count) == SafeLimit(a.limit)

\* { items, pagination } of the data-plus-count tools
Paginated(itemsKey, dataResult, countResult, offset) ==
  ToolSuccess(
    JObj(<< <<itemsKey, compressSparqlResult(dataResult)>>,
            <<Key("pagination", 10),
              PaginationInfo(TotalOf(countResult), RowCountOf(dataResult), offset,
                             RowCountOf(dataResult))>> >>),
    RowCountOf(dataResult))

HandlerResult(tool, a, r) ==
  CASE tool = "explore_catalog" ->
         ToolSuccess(JObj(<< <<Key("graphs", 6), compressSparqlResult(r[1])>>,
                             <<Key("ontologies", 10), compressSparqlResult(r[2])>> >>),
                     RowCountOf(r[1]) + RowCountOf(r[2]))
    [] tool = "list_datasets" -> Paginated(Key("items", 5), r[1], r[2], a.offset)
    [] tool = "explore_dataset" ->
         ToolSuccess(JObj(<< <<Key("metadata", 8), compressSparqlResult(r[1])>>,
                             <<Key("distributions", 13), compressSparqlResult(r[2])>> >>),
                     RowCountOf(r[1]) + RowCountOf(r[2]))
    [] tool = "inspect_concept" ->
         ToolSuccess(JObj(<< <<Key("definition", 10), compressSparqlResult(r[1])>>,
                             <<Key("hierarchy", 9), compressSparqlResult(r[2])>>,
                             <<Key("usage", 5), compressSparqlResult(r[3])>>,
                             <<Key("incoming", 8), compressSparqlResult(r[4])>>,
                             <<Key("outgoing", 8), compressSparqlResult(r[5])>> >>),
                     RowCountOf(r[1]) + RowCountOf(r[2]) + RowCountOf(r[3])
                       + RowCountOf(r[4]) + RowCountOf(r[5]))
    [] tool = "suggest_improvements" ->
         ToolSuccess(JObj(<< <<Key("possible_cycles", 15), compressSparqlResult(r[2])>>,
                             <<Key("unused_classes", 14), compressSparqlResult(r[1])>> >>),
                     RowCountOf(r[1]) + RowCountOf(r[2]))
    [] tool = "browse_vocabulary" -> Paginated(Key("concepts", 8), r[1], r[2], a.offset)
    [] tool = "list_municipalities" /\ a.withBelfiore ->
         LET ms == Municipalities(r[1], r[2]) IN
         ToolSuccess(JObj(<< <<Key("municipalities", 14), MunicipalitiesData(ms)>>,
                             <<Key("pagination", 10),
                               PaginationInfo(TotalOf(r[3]), Len(ms), a.offset,
                                              BelfioreStep(a, Len(ms)))>> >>),
                     Len(ms))
    [] tool = "list_municipalities" /\ ~a.withBelfiore ->
         Paginated(Key("municipalities", 14), r[1], r[2], a.offset)
    [] tool = "list_provinces" ->
         LET ps == Provinces(r[1], r[2], r[3]) IN ToolSuccess(ProvincesData(ps), Len(ps))
    \* executeSparqlTool
    [] OTHER -> ToolSuccess(compressSparqlResult(r[1]), RowCountOf(r[1]))

(***************************************************************************)
(* THE ENDPOINT.  What it may answer to one POST: a success status with a  *)
(* JSON body, a non-success status, a success status with a body that is   *)
(* not JSON, or no answer at all (fetch rejects).                          *)
(***************************************************************************)
\* length of the long cell value of the oversized answers
BigRun == 60000

Notation(k) == TextOf(<<"0", "0", DigitChars[k + 1]>>)
Roma == <<Word("Roma", 4)>>
Rome == <<Word("Rome", 4)>>
RomaCapitale == <<Word("Roma", 4), Word(" Capitale", 9)>>
Long == <<Word("a", BigRun)>>
NameRow(k, name) == <<Cell(VarNotation, Notation(k)), Cell(VarName, name)>>
NamesVars == <<VarNotation, VarName>>

REmpty == SparqlResult(NamesVars, <<>>)
\* duplicate keys, out of key order, a tie in length, a longer name after a
\* shorter one and a shorter name after a longer one
RDup == SparqlResult(NamesVars,
  <<NameRow(2, Roma), NameRow(1, Roma), NameRow(2, RomaCapitale), NameRow(1, Rome),
    NameRow(2, Rome)>>)
\* six keys in descending order and a row whose name is unbound
RSix == SparqlResult(NamesVars,
  <<NameRow(6, Roma), NameRow(5, Roma), NameRow(4, Roma), <<Cell(VarNotation, Notation(4))>>,
    NameRow(3, Roma), NameRow(2, Roma), NameRow(1, RomaCapitale)>>)
\* three rows: a datatype and a language tag, a name that is absent, a name
\* that is null
RSparse == SparqlResult(NamesVars,
  << <<[k |-> VarNotation, b |-> TypedBinding(Notation(1))],
       [k |-> VarName, b |-> LangBinding(Roma)]>>,
     <<Cell(VarNotation, Notation(2))>>,
     <<Cell(VarNotation, Notation(3)), [k |-> VarName, b |-> NullBinding]>> >>)
\* the rows of RSix in a body without head.vars
RNoHead == [RSix EXCEPT !.hasVars = FALSE, !.vars = <<>>]
\* oversized: a complete record, then a record with a long value
RBigRecord == SparqlResult(NamesVars, <<NameRow(1, Roma), NameRow(2, Long)>>)
\* oversized: the first record has the long value
RBigFirst == SparqlResult(NamesVars, <<NameRow(1, Long)>>)
\* oversized and tabular
RBigTab == SparqlResult(NamesVars,
  <<NameRow(1, Long), NameRow(2, Roma), NameRow(3, Roma), NameRow(4, Roma),
    NameRow(5, Roma), NameRow(6, Roma)>>)
\* a value holding a brace, a quote and a backslash
RBrace == SparqlResult(<<VarName>>,
  << <<Cell(VarName, <<Ch("}"), Ch("\""), Ch("\\"), Word("x", 1)>>)>> >>)
\* oversized: a brace inside the long value
RBraceBig == SparqlResult(<<VarName>>,
  << <<Cell(VarName, <<Word("x", 1), Ch("}")>> \o Long)>> >>)
\* two names of one key: two rows, one record after reconciliation
RTwoNames == SparqlResult(NamesVars, <<NameRow(1, Roma), NameRow(1, RomaCapitale)>>)
\* one record whose value is a run of k characters
RRun(k) == SparqlResult(<<VarName>>, << <<Cell(VarName, <<Word("a", k)>>)>> >>)
\* the run that makes the serialized payload exactly CHARACTER_LIMIT long
LimitRun ==
  CHARACTER_LIMIT + 1 - TextLen(JSONstringify(compressSparqlResult(RRun(1))))
\* serialized length CHARACTER_LIMIT, and one character more
RAtLimit == RRun(LimitRun)
ROverLimit == RRun(LimitRun + 1)
RCount(k) == SparqlResult(<<VarTotal>>, << <<Cell(VarTotal, Digits(k))>> >>)
RCountText == SparqlResult(<<VarTotal>>, << <<Cell(VarTotal, <<Word("many", 4)>>)>> >>)
\* a lookup source: two values for key 001, none for key 002
RAux(var) == SparqlResult(<<VarNotation, var>>,
  << <<Cell(VarNotation, Notation(1)), Cell(var, <<Word("H501", 4)>>)>>,
     <<Cell(VarNotation, Notation(3)), Cell(var, <<Word("L219", 4)>>)>>,
     <<Cell(VarNotation, Notation(1)), Cell(var, <<Word("H502", 4)>>)>> >>)

Ok(result) == [kind |-> "ok", result |-> result]
HttpError == [kind |-> "http", status |-> 500,
              statusText |-> <<Word("Internal Server Error", 21)>>]
HttpUnavailable == [kind |-> "http", status |-> 503,
                    statusText |-> <<Word("Service Unavailable", 19)>>]
BadJson == [kind |-> "badjson"]
NetworkError == [kind |-> "network"]
NoAnswer == [kind |-> "none"]

DataAnswers ==
  {Ok(r) : r \in {REmpty, Shapeless, RDup, RSparse, RSix, RNoHead, RBigRecord, RBigFirst, RBigTab,
                  RBrace, RBraceBig, RAtLimit, ROverLimit}}
    \cup {HttpError, HttpUnavailable, BadJson, NetworkError}
\* to the first query of a tool that makes several
ListAnswers ==
  {Ok(r) : r \in {REmpty, Shapeless, RTwoNames, RDup, RSix, RBigRecord}}
    \cup {HttpError, NetworkError}
FacetAnswers == {Ok(REmpty), Ok(RDup), HttpError}
CountAnswers ==
  {Ok(RCount(0)), Ok(RCount(2)), Ok(RCount(7)), Ok(RCountText), Ok(Shapeless), HttpError}
AuxAnswers(var) == {Ok(RAux(var)), Ok(REmpty), HttpError}

\* executeSparql: the message of the Error the call rejects with
RejectionMessage(answer) ==
  CASE answer.kind = "http" ->
         <<Word("SPARQL request failed: ", 23)>> \o Digits(answer.status)
           \o <<Word(" ", 1)>> \o answer.statusText
    [] answer.kind = "badjson" -> <<Word("Unexpected token < in JSON at position 0", 40)>>
    [] answer.kind = "network" -> <<Word("fetch failed", 12)>>

\* the message of the SyntaxError JSON.parse throws
JsonSyntaxErrorMessage == <<Word("Unexpected end of JSON input", 28)>>

(***************************************************************************)
(* preview_distribution.  The handler fetches the URL itself, under a 10 s *)
(* timeout that it clears once fetch has resolved, and builds the preview  *)
(* from the body.                                                          *)
(***************************************************************************)
\* array.slice(0, 10), text.split("\n").slice(0, 15), text.slice(0, 2000)
PreviewItems == 10
PreviewLines == 15
PreviewChars == 2000

Indent(depth) == IF depth = 0 THEN <<>> ELSE <<Word(" ", 2 * depth)>>

\* JSON.stringify(value, null, 2)
RECURSIVE StringifyPretty(_, _), PrettyItems(_, _), PrettyMembers(_, _)
StringifyPretty(v, depth) ==
  CASE v.t = "arr" /\ v.items # <<>> ->
         <<Ch("["), Ch("\n")>> \o PrettyItems(v.items, depth + 1)
           \o <<Ch("\n")>> \o Indent(depth) \o <<Ch("]")>>
    [] v.t = "obj" /\ v.members # <<>> ->
         <<Ch("{"), Ch("\n")>> \o PrettyMembers(v.members, depth + 1)
           \o <<Ch("\n")>> \o Indent(depth) \o <<Ch("}")>>
    [] OTHER -> JSONstringify(v)

PrettyItems(items, depth) ==
  Indent(depth) \o StringifyPretty(Head(items), depth)
    \o (IF Len(items) > 1 THEN <<Ch(","), Ch("\n")>> \o PrettyItems(Tail(items), depth)
        ELSE <<>>)

PrettyMembers(ms, depth) ==
  Indent(depth) \o JsonQuote(Head(ms)[1]) \o <<Ch(":"), Word(" ", 1)>>
    \o StringifyPretty(Head(ms)[2], depth)
    \o (IF Len(ms) > 1 THEN <<Ch(","), Ch("\n")>> \o PrettyMembers(Tail(ms), depth)
        ELSE <<>>)

\* a JSON value read as a condition
TruthyJson(v) ==
  CASE v.t \in {"null", "nan"} -> FALSE
    [] v.t = "bool" -> v.b
    [] v.t = "num" -> v.k # 0
    [] v.t = "str" -> v.s # <<>>
    [] OTHER -> TRUE

\* obj[key] || ...: the member is there and truthy
TruthyMember(v, key) ==
  /\ v.t = "obj"
  /\ \E i \in DOMAIN v.members : v.members[i][1] = key
  /\ TruthyJson(Member(v, key))

\* Array.isArray(json) ? json : (jsonObj.results || jsonObj.data || [json]);
\* defined when json is not null
PreviewArray(json) ==
  IF json.t = "arr" THEN json
  ELSE IF TruthyMember(json, Key("results", 7)) THEN Member(json, Key("results", 7))
  ELSE IF TruthyMember(json, Key("data", 4)) THEN Member(json, Key("data", 4))
  ELSE JArr(<<json>>)

\* text.slice(0, 2000) + "\n... (truncated)"
PreviewOfText(text) ==
  Slice(text, PreviewChars) \o <<Ch("\n"), Word("... (truncated)", 15)>>

\* the try block of the JSON branch; its catch on a SyntaxError of
\* JSON.parse and on a TypeError (a property of null, a value with no slice)
PreviewOfJson(text) ==
  LET parsed == JSONparse(text) IN
  IF ~parsed.ok \/ parsed.v.t = "null" THEN PreviewOfText(text)
  ELSE LET array == PreviewArray(parsed.v) IN
    CASE array.t = "arr" ->
           StringifyPretty(
             JArr(SubSeq(array.items, 1, Min(PreviewItems, Len(array.items)))), 0)
      [] array.t = "str" -> StringifyPretty(JStr(Slice(array.s, PreviewItems)), 0)
      [] OTHER -> PreviewOfText(text)

\* text.split("\n").slice(0, 15).join("\n")
PreviewOfLines(text) ==
  LET t == Explode(text)
      breaks == {i \in DOMAIN t : t[i].c = "\n"}
      cut == {i \in breaks : Cardinality({j \in breaks : j <= i}) = PreviewLines}
  IN IF cut = {} THEN t ELSE SubSeq(t, 1, (CHOOSE i \in cut : TRUE) - 1)

\* url.endsWith(".json")
EndsWithJson(url) ==
  LET suffix == <<".", "j", "s", "o", "n">> IN
  Len(url) >= Len(suffix) /\ SubSeq(url, Len(url) - Len(suffix) + 1, Len(url)) = suffix

\* the handler's result once the body has been read
PreviewResult(url, jsonType, text) ==
  [success |-> TRUE, hasRowCount |-> FALSE, rowCount |-> 0,
   data |-> JStr(<<Word("Preview of ", 11)>> \o TextOf(url)
                   \o <<Ch(":"), Ch("\n"), Ch("\n")>>
                   \o (IF jsonType \/ EndsWithJson(url) THEN PreviewOfJson(text)
                       ELSE PreviewOfLines(text)))]

\* { success: false, error }
ToolFailure(error) == [success |-> FALSE, error |-> error]

\* what the host may send as a body
Line == <<Word("x;y", 3)>>
CsvShort == Line \o <<Ch("\n")>> \o Line
CsvLong == [i \in 1..(2 * PreviewLines + 1) |-> IF i % 2 = 1 THEN Line[1] ELSE Ch("\n")]
JsonEleven == JSONstringify(JArr([i \in 1..(PreviewItems + 1) |-> JNum(i)]))
JsonData == JSONstringify(JObj(<< <<Key("data", 4), JArr(<<JObj(<< <<VarName, JStr(Roma)>> >>)>>)>> >>))
JsonResultsText == JSONstringify(JObj(<< <<Key("results", 7), JStr(<<Word("abcdefghijkl", 12)>>)>> >>))
JsonResultsNumber == JSONstringify(JObj(<< <<Key("results", 7), JNum(7)>> >>))
JsonRecord == JSONstringify(JObj(<< <<VarName, JStr(Roma)>> >>))
JsonNullText == JSONstringify(JNull)
JsonBroken == <<Ch("{")>>
Bodies == {CsvShort, CsvLong, JsonEleven, JsonData, JsonResultsText, JsonResultsNumber,
           JsonRecord, JsonNullText, JsonBroken}
NotFoundMessage == <<Word("Failed to fetch distribution: ", 30)>> \o Digits(404)
                     \o <<Word(" Not Found", 10)>>
AbortMessage == <<Word("This operation was aborted", 26)>>
BodyErrorMessage == <<Word("terminated", 10)>>

(***************************************************************************)
(* analyze_usage.  The handler reads usage_log.jsonl, the file logUsage    *)
(* appends to, and summarizes its lines.                                   *)
(***************************************************************************)
\* [...new Set(errors)].slice(0, 5)
ErrorsKept == 5

IsSpace(chunk) == chunk.c \in Whitespace

\* String.prototype.trim()
Trim(text) ==
  LET inked == {i \in DOMAIN text : ~IsSpace(text[i])}
  IN IF inked = {} THEN <<>>
     ELSE SubSeq(text, CHOOSE i \in inked : \A j \in inked : i <= j,
                       CHOOSE i \in inked : \A j \in inked : j <= i)

\* String.prototype.split("\n")
SplitLines(text) ==
  LET t == Explode(text)
      breaks == {i \in DOMAIN t : t[i].c = "\n"}
      Break(k) == IF k = 0 THEN 0
                  ELSE IF k > Cardinality(breaks) THEN Len(t) + 1
                  ELSE CHOOSE i \in breaks : Cardinality({j \in breaks : j <= i}) = k
  IN [k \in 1..(Cardinality(breaks) + 1) |-> SubSeq(t, Break(k - 1) + 1, Break(k) - 1)]

\* the locals of the loop over the lines
NoUsage == [totalCalls |-> 0, toolUsage |-> <<>>, errors |-> <<>>, timestamps |-> <<>>]

HasMemberStr(v, key) ==
  v.t = "obj" /\ (\E i \in DOMAIN v.members : v.members[i][1] = key)
    /\ Member(v, key).t = "str"

\* toolUsage[tool] = (toolUsage[tool] || 0) + 1
CountTool(toolUsage, name) ==
  IF \E i \in DOMAIN toolUsage : toolUsage[i][1] = name
    THEN [i \in DOMAIN toolUsage |->
            IF toolUsage[i][1] = name THEN <<name, JNum(toolUsage[i][2].k + 1)>>
            ELSE toolUsage[i]]
    ELSE Append(toolUsage, <<name, JNum(1)>>)

\* `[${entry.tool}] ${entry.summary}`
ErrorLine(entry) ==
  <<Ch("[")>>
    \o (IF HasMemberStr(entry, Key("tool", 4)) THEN Member(entry, Key("tool", 4)).s
        ELSE <<Word("undefined", 9)>>)
    \o <<Ch("]"), Word(" ", 1)>> \o Member(entry, Key("summary", 7)).s

\* the body of the loop for a line that parsed as an object whose tool,
\* summary and timestamp are strings or missing
CountEntry(u, entry) ==
  LET hasTool == HasMemberStr(entry, Key("tool", 4)) /\ Truthy(Member(entry, Key("tool", 4)).s)
      isError == HasMemberStr(entry, Key("summary", 7))
                   /\ StartsWith(Member(entry, Key("summary", 7)).s, <<Word("Error", 5)>>)
      hasTime == HasMemberStr(entry, Key("timestamp", 9))
                   /\ Truthy(Member(entry, Key("timestamp", 9)).s)
  IN [totalCalls |-> u.totalCalls + 1,
      toolUsage |-> IF hasTool THEN CountTool(u.toolUsage, Member(entry, Key("tool", 4)).s)
                    ELSE u.toolUsage,
      errors |-> IF isError THEN Append(u.errors, ErrorLine(entry)) ELSE u.errors,
      timestamps |-> IF hasTime THEN Append(u.timestamps, Member(entry, Key("timestamp", 9)).s)
                     ELSE u.timestamps]

\* for (const line of lines): blank lines skipped, lines that do not parse
\* skipped by the catch; a line that parses to null is counted before the
\* TypeError of entry.tool reaches the catch
RECURSIVE CountLines(_, _)
CountLines(lines, u) ==
  IF lines = <<>> THEN u
  ELSE LET line == Head(lines)
           parsed == JSONparse(Trim(line))
       IN CountLines(Tail(lines),
            IF Trim(line) = <<>> \/ ~parsed.ok THEN u
            ELSE IF parsed.v.t # "obj" THEN [u EXCEPT !.totalCalls = u.totalCalls + 1]
            ELSE CountEntry(u, parsed.v))

\* [...new Set(list)]: the first occurrence of each element, in order
RECURSIVE Distinct(_, _)
Distinct(list, acc) ==
  IF list = <<>> THEN acc
  ELSE Distinct(Tail(list),
                IF \E i \in DOMAIN acc : acc[i] = Head(list) THEN acc
                ELSE Append(acc, Head(list)))

\* the data analyze_usage returns for a file
UsageReport(data) ==
  LET u == CountLines(SplitLines(Trim(data)), NoUsage)
      distinctErrors == Distinct(u.errors, <<>>)
      kept == SubSeq(distinctErrors, 1, Min(ErrorsKept, Len(distinctErrors)))
  IN JObj(<< <<Key("total_calls", 11), JNum(u.totalCalls)>>,
             <<Key("tool_breakdown", 14), JObj(u.toolUsage)>>,
             <<Key("recent_errors", 13), JArr([i \in DOMAIN kept |-> JStr(kept[i])])>> >>
          \o Opt(u.timestamps # <<>>,
                 << <<Key("last_activity", 13), JStr(u.timestamps[Len(u.timestamps)])>> >>))

\* { success: true, data } without a rowCount
ToolData(data) == [success |-> TRUE, hasRowCount |-> FALSE, rowCount |-> 0, data |-> data]
NoLogsMessage ==
  JObj(<< <<Key("message", 7), JStr(<<Word("No usage logs found yet.", 24)>>)>> >>)

\* the line logUsage appends for an entry
LogLine(stamp, name, summary) ==
  JSONstringify(JObj(<< <<Key("timestamp", 9), JStr(<<Word("T", 1), Ch(DigitChars[stamp + 1])>>)>>,
                        <<Key("tool", 4), JStr(name)>>,
                        <<Key("args", 4), JObj(<<>>)>>,
                        <<Key("summary", 7), JStr(summary)>> >>)) \o <<Ch("\n")>>
\* a summary of the catch branch; Error is a chunk of its own, so that
\* startsWith("Error") is a comparison of the first chunk
ErrorSummary(k) == <<Word("Error", 5), Ch(":"), Word(" e", 2), Ch(DigitChars[k + 1])>>
ToolA == <<Word("list_provinces", 14)>>
ToolB == <<Word("query_sparql", 12)>>
\* files usage_log.jsonl may hold: empty; successes, a repeated error and a
\* line cut short; six different errors, the first repeated at the end; a
\* line that is null
FileEmpty == <<>>
FileMixed ==
  LogLine(1, ToolA, <<Word("Success", 7), Ch(","), Word(" ", 1), Ch("2"), Word(" rows", 5)>>)
    \o LogLine(2, ToolB, ErrorSummary(1)) \o <<Ch("{"), Ch("\n")>>
    \o LogLine(3, ToolB, ErrorSummary(1)) \o LogLine(4, ToolA, ErrorSummary(2))
FileSixErrors ==
  LogLine(1, ToolA, ErrorSummary(1)) \o LogLine(2, ToolA, ErrorSummary(2))
    \o LogLine(3, ToolA, ErrorSummary(3)) \o LogLine(4, ToolB, ErrorSummary(4))
    \o LogLine(5, ToolB, ErrorSummary(5)) \o LogLine(6, ToolB, ErrorSummary(6))
    \o LogLine(7, ToolA, ErrorSummary(1))
FileNull == <<Word("null", 4), Ch("\n")>> \o LogLine(1, ToolA, ErrorSummary(1))
LogFiles == {FileEmpty, FileMixed, FileSixErrors, FileNull}
ReadFailedMessage == <<Word("EACCES: permission denied", 25)>>

(***************************************************************************)
(* ARGUMENTS.  An optional string that is absent is the empty string: the  *)
(* handlers take the same branch for both.                                 *)
(***************************************************************************)
Chars_http == <<"h", "t", "t", "p", ":", "/", "/">>
GoodUri == Chars_http \o <<"a">>
\* closes the <...> it is written into
BadUri == Chars_http \o <<"a", ">">>
UriArgs == {GoodUri, BadUri}
KeywordArgs == {<<>>, <<"a">>, <<"a", "\"", "\\">>}
LimitArgs == {2, 50, 600}
OffsetArgs == {0, 2}
QueryArgs == {<<"q">>, <<"q", "\"", ">">>}

UrlJson == Chars_http \o <<"a", ".", "j", "s", "o", "n">>
PreviewUrls == {GoodUri, UrlJson}

DefaultArgs ==
  [uri |-> <<>>, uri2 |-> <<>>, keyword |-> <<>>, limit |-> 50, offset |-> 0,
   withBelfiore |-> FALSE, query |-> <<>>, depth |-> 1, url |-> <<>>]

SingleQueryTools ==
  {"query_sparql", "explore_classes", "check_coverage", "check_quality", "check_overlaps",
   "list_ontologies", "explore_ontology", "list_vocabularies", "search_in_vocabulary",
   "search_concepts", "find_relations", "list_properties", "get_property_details",
   "describe_resource", "list_identifiers"}
CompositeTools ==
  {"explore_catalog", "list_datasets", "explore_dataset", "inspect_concept",
   "suggest_improvements", "browse_vocabulary", "list_municipalities", "list_provinces"}
Tools == SingleQueryTools \cup CompositeTools

Answers ==
  DataAnswers \cup ListAnswers \cup FacetAnswers \cup CountAnswers
    \cup AuxAnswers(VarBelfiore) \cup AuxAnswers(VarSigla) \cup AuxAnswers(VarMetro)
\* the most executeSparql calls one invocation makes (inspect_concept)
MaxCalls == 5

\* the answers the model lets the endpoint give to the i-th call of a tool
AnswersFor(tool, withBelfiore, i) ==
  CASE tool \in {"list_datasets", "browse_vocabulary"} /\ i = 2 -> CountAnswers
    [] tool = "list_municipalities" /\ ~withBelfiore /\ i = 2 -> CountAnswers
    [] tool = "list_municipalities" /\ withBelfiore /\ i = 2 -> AuxAnswers(VarBelfiore)
    [] tool = "list_municipalities" /\ withBelfiore /\ i = 3 -> CountAnswers
    [] tool = "list_provinces" /\ i = 2 -> AuxAnswers(VarSigla)
    [] tool = "list_provinces" /\ i = 3 -> AuxAnswers(VarMetro)
    [] i > 1 -> FacetAnswers
    [] tool \in CompositeTools -> ListAnswers
    [] OTHER -> DataAnswers

\* the argument records the model invokes a tool with
ArgsOf(tool) ==
  CASE tool = "query_sparql" -> {[DefaultArgs EXCEPT !.query = q] : q \in QueryArgs}
    [] tool \in {"explore_classes", "list_identifiers"} ->
         {[DefaultArgs EXCEPT !.keyword = k] : k \in KeywordArgs}
    [] tool \in {"check_coverage", "list_properties"} ->
         {[DefaultArgs EXCEPT !.uri = u] : u \in UriArgs \cup {<<>>}}
    [] tool \in {"explore_ontology", "explore_dataset", "inspect_concept",
                 "get_property_details"} ->
         {[DefaultArgs EXCEPT !.uri = u] : u \in UriArgs}
    [] tool = "describe_resource" ->
         {[DefaultArgs EXCEPT !.uri = u, !.depth = d] : u \in UriArgs, d \in {1, 2}}
    [] tool = "search_in_vocabulary" ->
         {[DefaultArgs EXCEPT !.uri = u, !.keyword = k] : u \in UriArgs, k \in KeywordArgs}
    [] tool = "search_concepts" ->
         {[DefaultArgs EXCEPT !.keyword = k] : k \in KeywordArgs}
    [] tool = "find_relations" ->
         {[DefaultArgs EXCEPT !.uri = u, !.uri2 = v] : u \in UriArgs, v \in UriArgs}
    [] tool = "list_datasets" ->
         {[DefaultArgs EXCEPT !.limit = l, !.offset = o] : l \in LimitArgs, o \in OffsetArgs}
    [] tool = "browse_vocabulary" ->
         {[DefaultArgs EXCEPT !.uri = u, !.keyword = k, !.offset = o] :
            u \in UriArgs, k \in {<<>>, <<"a", "\"", "\\">>}, o \in OffsetArgs}
    [] tool = "list_municipalities" ->
         {[DefaultArgs EXCEPT !.limit = l, !.offset = o, !.keyword = k, !.withBelfiore = w] :
            l \in LimitArgs, o \in OffsetArgs, k \in {<<>>, <<"a", "\"", "\\">>},
            w \in BOOLEAN}
    [] tool = "list_provinces" ->
         {[DefaultArgs EXCEPT !.keyword = k] : k \in KeywordArgs}
    [] OTHER -> {DefaultArgs}

(***************************************************************************)
(* STATE                                                                   *)
(***************************************************************************)
VARIABLES
  tool,      \* the tool invoked, "none" before the invocation
  args,      \* its arguments
  pc,        \* "starting" (main awaits server.connect), "exited"
             \* (process.exit), "idle" (connected, no invocation being
             \* served), "awaiting" (the handler awaits its executeSparql
             \* calls), "logging" (executeTool awaits logUsage), "done"
             \* (executeTool returned), "escaped" (the handler threw before
             \* it entered executeTool)
  calls,     \* the executeSparql calls made: [query, st, answer], st being
             \* "inflight", "resolved" or "rejected"
  outcome,   \* what the handler ended with: [kind |-> "none"], a ToolResult
             \* [kind |-> "result", result] or [kind |-> "thrown", message]
  stage,     \* the logUsage call executeTool is in: at is "failure" (line
             \* 228), "success" (243) or "catch" (263), summary the
             \* resultSummary it logs, text and truncated the locals of
             \* the success branch, parsed what JSON.parse makes of the
             \* cut text when the response is built (a function of text)
  log,       \* the lines of usage_log.jsonl appended by this invocation
  logCalls,  \* the number of logUsage calls made
  response,  \* [kind |-> "none"] or the McpToolResponse [kind, text, isError]
  preview,   \* the fetch of preview_distribution: st is "none", "connecting"
             \* (fetch awaited), "reading" (response.text() awaited) or
             \* "over"; timer is the 10 s timeout, "none", "armed", "cleared"
             \* or "fired"; expired says that 10 s have passed since the
             \* fetch began while st was "connecting" or "reading"; jsonType
             \* is contentType.includes("json")
  fileRead,  \* the content of usage_log.jsonl that analyze_usage read, NoFile
             \* when it read none
  sanIn,     \* the sanitizers alone: the input string
  sanOp,     \* the sanitizer applied: "none", "literal" or "uri"
  sanOut     \* what it returned: [ok, v]

dispatchVars == <<tool, args, pc, calls, outcome, stage, log, logCalls, response, preview, fileRead>>
sanVars == <<sanIn, sanOp, sanOut>>
vars == <<tool, args, pc, calls, outcome, stage, log, logCalls, response, preview,
          fileRead, sanIn, sanOp, sanOut>>

NoOutcome == [kind |-> "none"]
NotParsed == [ok |-> TRUE, v |-> JNull]
Stage(at, summary, text, truncated, parsed) ==
  [at |-> at, summary |-> summary, text |-> text, truncated |-> truncated,
   parsed |-> parsed]
NoStage == Stage("none", <<>>, <<>>, FALSE, NotParsed)
NoResponse == [kind |-> "none"]
NoFile == <<Word("<no file>", 9)>>
NoPreview == [st |-> "none", timer |-> "none", expired |-> FALSE, jsonType |-> FALSE]
Response(text, isError) == [kind |-> "response", text |-> text, isError |-> isError]

DispatchInit ==
  /\ tool = "none"
  /\ args = DefaultArgs
  /\ pc = "starting"
  /\ calls = <<>>
  /\ outcome = NoOutcome
  /\ stage = NoStage
  /\ log = <<>>
  /\ logCalls = 0
  /\ response = NoResponse
  /\ preview = NoPreview
  /\ fileRead = NoFile

SanIdle == sanIn = <<>> /\ sanOp = "none" /\ sanOut = [ok |-> TRUE, v |-> <<>>]

Init == DispatchInit /\ SanIdle

(***************************************************************************)
(* executeTool                                                             *)
(***************************************************************************)
ErrorText(message) == <<Word("Error: ", 7)>> \o message

\* `Success${rowInfo}${truncated ? " (truncated)" : ""}`
SuccessSummary(result, truncated) ==
  <<Word("Success", 7)>>
    \o Opt(result.hasRowCount,
           <<Word(", ", 2)>> \o Digits(result.rowCount) \o <<Word(" rows", 5)>>)
    \o Opt(truncated, <<Word(" (truncated)", 12)>>)

\* truncateResult(JSON.stringify(result.data))
Truncated(result) == truncateResult(JSONstringify(result.data))

\* the args object the handler hands to executeTool: list_municipalities
\* passes safeLimit as limit
LoggedArgs == IF tool = "list_municipalities"
                THEN [args EXCEPT !.limit = SafeLimit(args.limit)] ELSE args

\* logUsage's entry, without the timestamp
LogEntry(summary) == [tool |-> tool, args |-> LoggedArgs, summary |-> summary]

\* executeTool from the handler's outcome up to the logUsage call it awaits
EnterLogging(o) ==
  /\ pc' = "logging"
  /\ outcome' = o
  /\ logCalls' = logCalls + 1
  /\ stage' =
       IF o.kind = "thrown" THEN Stage("catch", ErrorText(o.message), <<>>, FALSE, NotParsed)
       ELSE IF ~o.result.success
         THEN Stage("failure", ErrorText(o.result.error), <<>>, FALSE, NotParsed)
       ELSE LET tr == Truncated(o.result)
            IN Stage("success", SuccessSummary(o.result, tr.truncated), tr.text, tr.truncated,
                     IF tr.truncated THEN JSONparse(TruncatedPrefix(tr.text)) ELSE NotParsed)

\* executeTool after the awaited logUsage call returned
AfterLogging ==
  IF stage.at \in {"failure", "catch"}
    THEN /\ response' = Response(stage.summary, TRUE)
         /\ pc' = "done"
         /\ UNCHANGED <<stage, logCalls>>
  ELSE
    IF ~stage.truncated
      THEN /\ response' = Response(stage.text, FALSE)
           /\ pc' = "done"
           /\ UNCHANGED <<stage, logCalls>>
    ELSE
      IF stage.parsed.ok
        THEN /\ response' = Response(JSONstringify(TruncationMarker(stage.parsed.v)), FALSE)
             /\ pc' = "done"
             /\ UNCHANGED <<stage, logCalls>>
        \* JSON.parse throws inside the try block: the catch logs again
        ELSE /\ stage' = Stage("catch", ErrorText(JsonSyntaxErrorMessage), <<>>, FALSE, NotParsed)
             /\ logCalls' = logCalls + 1
             /\ pc' = "logging"
             /\ UNCHANGED response

(***************************************************************************)
(* ACTIONS                                                                 *)
(***************************************************************************)
\* main: server.connect resolved, the server serves invocations
Connected ==
  /\ pc = "starting"
  /\ pc' = "idle"
  /\ UNCHANGED <<tool, args, calls, outcome, stage, log, logCalls, response, preview, fileRead, sanVars>>

\* main: server.connect rejected; main().catch exits the process
BootstrapFailed ==
  /\ pc = "starting"
  /\ pc' = "exited"
  /\ UNCHANGED <<tool, args, calls, outcome, stage, log, logCalls, response, preview, fileRead, sanVars>>

FirstInvalid(inputs) ==
  LET bad == {i \in DOMAIN inputs : ~sanitizeSparqlUri(inputs[i]).ok}
  IN IF bad = {} THEN 0 ELSE CHOOSE i \in bad : \A j \in bad : i <= j

\* A tool is invoked; its handler builds the queries and calls executeSparql
\* for each of them (every fetch is issued before the first await yields).
Invoke(t, a) ==
  /\ pc = "idle"
  /\ FirstInvalid(UriInputs(t, a)) = 0
  /\ tool' = t
  /\ args' = a
  /\ calls' = [i \in DOMAIN ToolQueries(t, a) |->
                 [query |-> ToolQueries(t, a)[i], posts |-> 1, st |-> "inflight",
                  answer |-> NoAnswer]]
  /\ pc' = "awaiting"
  /\ UNCHANGED <<outcome, stage, log, logCalls, response, preview, fileRead, sanVars>>

\* The handler throws in sanitizeSparqlUri, which every handler calls before
\* it calls executeTool: the rejection leaves through the tool callback.
InvokeInvalid(t, a) ==
  /\ pc = "idle"
  /\ FirstInvalid(UriInputs(t, a)) # 0
  /\ tool' = t
  /\ args' = a
  /\ outcome' = [kind |-> "thrown",
                 message |-> InvalidUriMessage(UriInputs(t, a)[FirstInvalid(UriInputs(t, a))])]
  /\ pc' = "escaped"
  /\ UNCHANGED <<calls, stage, log, logCalls, response, preview, fileRead, sanVars>>

\* a second POST after a non-success status
executeSparql_Retries(call, answer) ==
  IF answer.kind = "http" /\ call.posts = 1
    THEN [query |-> call.query, posts |-> call.posts + 1, st |-> "inflight",
          answer |-> NoAnswer]
  ELSE [query |-> call.query, posts |-> call.posts,
        st |-> IF answer.kind = "ok" THEN "resolved" ELSE "rejected", answer |-> answer]

\* executeSparql once its fetch has settled: the promise resolves with the
\* parsed body on a success status, and rejects on a non-success status, on
\* a body that is not JSON and on a failed fetch; no second POST is made.
executeSparql(call, answer) ==
  [query |-> call.query, posts |-> call.posts,
   st |-> IF answer.kind = "ok" THEN "resolved" ELSE "rejected", answer |-> answer]

\* preview_distribution is invoked: executeTool calls the handler, which
\* arms the timeout and awaits fetch(url, { signal })
InvokePreview(u) ==
  /\ pc = "idle"
  /\ tool' = "preview_distribution"
  /\ args' = [DefaultArgs EXCEPT !.url = u]
  /\ pc' = "awaiting"
  /\ preview' = [st |-> "connecting", timer |-> "armed", expired |-> FALSE,
                 jsonType |-> FALSE]
  /\ UNCHANGED <<calls, outcome, stage, log, logCalls, response, fileRead, sanVars>>

\* the status line and headers arrive: fetch resolves, the handler clears
\* the timeout, returns a failure on a non-success status and otherwise
\* awaits response.text()
HeadersArrive(ok, jsonType) ==
  /\ pc = "awaiting" /\ preview.st = "connecting"
  /\ IF ok
       THEN /\ preview' = [preview EXCEPT !.st = "reading", !.timer = "cleared",
                                          !.jsonType = jsonType]
            /\ UNCHANGED <<pc, outcome, stage, logCalls>>
       ELSE /\ preview' = [preview EXCEPT !.st = "over", !.timer = "cleared"]
            /\ EnterLogging([kind |-> "result", result |-> ToolFailure(NotFoundMessage)])
  /\ UNCHANGED <<tool, args, calls, log, response, fileRead, sanVars>>

\* fetch rejects before any header: the finally block clears the timeout
\* and the rejection reaches executeTool's catch
FetchRejects ==
  /\ pc = "awaiting" /\ preview.st = "connecting"
  /\ preview' = [preview EXCEPT !.st = "over", !.timer = "cleared"]
  /\ EnterLogging([kind |-> "thrown", message |-> RejectionMessage(NetworkError)])
  /\ UNCHANGED <<tool, args, calls, log, response, fileRead, sanVars>>

\* 10 s have passed since the fetch began.  A timeout still armed fires:
\* controller.abort() makes the fetch reject.  A timeout already cleared
\* does nothing.
DeadlinePasses ==
  /\ pc = "awaiting" /\ preview.st \in {"connecting", "reading"}
  /\ ~preview.expired
  /\ IF preview.timer = "armed"
       THEN /\ preview' = [preview EXCEPT !.st = "over", !.timer = "fired",
                                          !.expired = TRUE]
            /\ EnterLogging([kind |-> "thrown", message |-> AbortMessage])
       ELSE /\ preview' = [preview EXCEPT !.expired = TRUE]
            /\ UNCHANGED <<pc, outcome, stage, logCalls>>
  /\ UNCHANGED <<tool, args, calls, log, response, fileRead, sanVars>>

\* the whole body has arrived: response.text() resolves and the handler
\* returns the preview
BodyArrives(text) ==
  /\ pc = "awaiting" /\ preview.st = "reading"
  /\ preview' = [preview EXCEPT !.st = "over"]
  /\ EnterLogging([kind |-> "result",
                   result |-> PreviewResult(args.url, preview.jsonType, text)])
  /\ UNCHANGED <<tool, args, calls, log, response, fileRead, sanVars>>

\* the connection breaks while the body is read: response.text() rejects
BodyFails ==
  /\ pc = "awaiting" /\ preview.st = "reading"
  /\ preview' = [preview EXCEPT !.st = "over"]
  /\ EnterLogging([kind |-> "thrown", message |-> BodyErrorMessage])
  /\ UNCHANGED <<tool, args, calls, log, response, fileRead, sanVars>>

\* analyze_usage is invoked.  Without a log file the handler returns a
\* message at once; with one it awaits readFile.
InvokeAnalyze(exists) ==
  /\ pc = "idle"
  /\ tool' = "analyze_usage"
  /\ args' = DefaultArgs
  /\ IF exists
       THEN pc' = "awaiting" /\ UNCHANGED <<outcome, stage, logCalls>>
       ELSE EnterLogging([kind |-> "result", result |-> ToolData(NoLogsMessage)])
  /\ UNCHANGED <<calls, log, response, preview, fileRead, sanVars>>

\* readFile resolves with the content of the file
ReadFileResolves(data) ==
  /\ pc = "awaiting" /\ tool = "analyze_usage"
  /\ fileRead' = data
  /\ EnterLogging([kind |-> "result", result |-> ToolData(UsageReport(data))])
  /\ UNCHANGED <<tool, args, calls, log, response, preview, sanVars>>

\* readFile rejects
ReadFileRejects ==
  /\ pc = "awaiting" /\ tool = "analyze_usage"
  /\ EnterLogging([kind |-> "thrown", message |-> ReadFailedMessage])
  /\ UNCHANGED <<tool, args, calls, log, response, preview, fileRead, sanVars>>

AllResolved(cs) == \A i \in DOMAIN cs : cs[i].st = "resolved"
\* the values in the reverse of call order, as when each slot is filled in
\* order of arrival and the last call answers first
Results_Reversed(cs) == [i \in DOMAIN cs |-> cs[Len(cs) + 1 - i].answer.result]

\* the values of Promise.all: the result of call i in slot i
Results(cs) == [i \in DOMAIN cs |-> cs[i].answer.result]

\* Promise.allSettled with a failed call read as an empty result
PromiseAll_Settled(cs) ==
  IF \E i \in DOMAIN cs : cs[i].st = "inflight" THEN [st |-> "pending"]
  ELSE [st |-> "resolved",
        values |-> [i \in DOMAIN cs |->
                      IF cs[i].st = "resolved" THEN cs[i].answer.result ELSE REmpty]]

\* resolved as soon as one call has resolved, a call still in flight read
\* as an empty result
PromiseAll_FirstResolved(cs) ==
  IF \E i \in DOMAIN cs : cs[i].st = "rejected"
    THEN [st |-> "rejected",
          reason |-> RejectionMessage(
                       cs[CHOOSE i \in DOMAIN cs : cs[i].st = "rejected"].answer)]
  ELSE IF \E i \in DOMAIN cs : cs[i].st = "resolved"
    THEN [st |-> "resolved",
          values |-> [i \in DOMAIN cs |->
                        IF cs[i].st = "resolved" THEN cs[i].answer.result ELSE REmpty]]
  ELSE [st |-> "pending"]

\* Promise.all over the calls (and the await of the one call of
\* executeSparqlTool): rejected with the reason of the call that rejected,
\* the others still in flight or resolved; resolved with every result once
\* every call has resolved.  While the handler awaits, at most one call has
\* rejected.
PromiseAll(cs) ==
  IF \E i \in DOMAIN cs : cs[i].st = "rejected"
    THEN [st |-> "rejected",
          reason |-> RejectionMessage(
                       cs[CHOOSE i \in DOMAIN cs : cs[i].st = "rejected"].answer)]
  ELSE IF AllResolved(cs) THEN [st |-> "resolved", values |-> Results(cs)]
  ELSE [st |-> "pending"]

\* a failed call aborting the calls of the fan-out that are still in flight
Settle_AbortsSiblings(i, answer) ==
  /\ i \in DOMAIN calls
  /\ calls[i].st = "inflight"
  /\ answer \in AnswersFor(tool, args.withBelfiore, i)
  /\ calls' = [j \in DOMAIN calls |->
                 IF j = i THEN executeSparql(calls[i], answer)
                 ELSE IF answer.kind # "ok" /\ calls[j].st = "inflight"
                   THEN executeSparql(calls[j], NetworkError)
                 ELSE calls[j]]
  /\ LET all == PromiseAll([calls EXCEPT ![i] = executeSparql(calls[i], answer)]) IN
     IF pc # "awaiting" \/ all.st = "pending"
       THEN UNCHANGED <<pc, outcome, stage, logCalls>>
     ELSE IF all.st = "rejected"
       THEN EnterLogging([kind |-> "thrown", message |-> all.reason])
     ELSE EnterLogging([kind |-> "result",
                        result |-> HandlerResult(tool, args, all.values)])
  /\ UNCHANGED <<tool, args, log, response, preview, fileRead, sanVars>>

\* The endpoint answers call i, or its fetch fails.  executeSparql resolves
\* or rejects, and the handler and executeTool run on to the next await.  An
\* answer that arrives after the handler ended settles the call and nothing
\* else.
Settle(i, answer) ==
  /\ i \in DOMAIN calls
  /\ calls[i].st = "inflight"
  /\ answer \in AnswersFor(tool, args.withBelfiore, i)
  /\ calls' = [calls EXCEPT ![i] = executeSparql(calls[i], answer)]
  /\ LET all == PromiseAll(calls') IN
     IF pc # "awaiting" \/ all.st = "pending"
       THEN UNCHANGED <<pc, outcome, stage, logCalls>>
     ELSE IF all.st = "rejected"
       THEN EnterLogging([kind |-> "thrown", message |-> all.reason])
     ELSE EnterLogging([kind |-> "result",
                        result |-> HandlerResult(tool, args, all.values)])
  /\ UNCHANGED <<tool, args, log, response, preview, fileRead, sanVars>>

\* appendFile succeeds: the line is in the file
LogAppended ==
  /\ pc = "logging"
  /\ log' = Append(log, LogEntry(stage.summary))
  /\ AfterLogging
  /\ UNCHANGED <<tool, args, calls, outcome, preview, fileRead, sanVars>>

\* the error of appendFile leaving logUsage and reaching executeTool's catch
LogAppendFailed_Propagates ==
  /\ pc = "logging"
  /\ response' = Response(ErrorText(<<Word("EACCES: permission denied", 25)>>), TRUE)
  /\ pc' = "done"
  /\ UNCHANGED <<tool, args, calls, outcome, stage, logCalls, log, preview, fileRead, sanVars>>

\* appendFile fails: logUsage catches the error and writes nothing
LogAppendFailed ==
  /\ pc = "logging"
  /\ AfterLogging
  /\ UNCHANGED <<tool, args, calls, outcome, log, preview, fileRead, sanVars>>

\* a rejection that left the tool callback ends the process
Return_ExitOnRejection ==
  /\ pc \in {"done", "escaped"}
  /\ pc' = IF pc = "escaped" THEN "exited" ELSE "idle"
  /\ tool' = IF pc = "escaped" THEN tool ELSE "none"
  /\ args' = DefaultArgs
  /\ calls' = <<>>
  /\ outcome' = NoOutcome
  /\ stage' = NoStage
  /\ log' = <<>>
  /\ logCalls' = 0
  /\ response' = NoResponse
  /\ preview' = NoPreview
  /\ fileRead' = NoFile
  /\ UNCHANGED sanVars

\* The tool callback settled, with the response of executeTool or with the
\* rejection that escaped it: the invocation is over and the server, still
\* connected, serves the next one.  The variables of the invocation start
\* afresh; calls still in flight belong to the invocation that ended.
Return ==
  /\ pc \in {"done", "escaped"}
  /\ pc' = "idle"
  /\ tool' = "none"
  /\ args' = DefaultArgs
  /\ calls' = <<>>
  /\ outcome' = NoOutcome
  /\ stage' = NoStage
  /\ log' = <<>>
  /\ logCalls' = 0
  /\ response' = NoResponse
  /\ preview' = NoPreview
  /\ fileRead' = NoFile
  /\ UNCHANGED sanVars

Next ==
  \/ Connected
  \/ BootstrapFailed
  \/ Return
  \/ \E u \in PreviewUrls : InvokePreview(u)
  \/ \E ok \in BOOLEAN : \E jsonType \in BOOLEAN : HeadersArrive(ok, jsonType)
  \/ FetchRejects
  \/ DeadlinePasses
  \/ \E text \in Bodies : BodyArrives(text)
  \/ BodyFails
  \/ \E exists \in BOOLEAN : InvokeAnalyze(exists)
  \/ \E data \in LogFiles : ReadFileResolves(data)
  \/ ReadFileRejects
  \/ \E t \in Tools : \E a \in ArgsOf(t) : Invoke(t, a)
  \/ \E t \in Tools : \E a \in ArgsOf(t) : InvokeInvalid(t, a)
  \/ \E i \in 1..MaxCalls : \E answer \in Answers : Settle(i, answer)
  \/ LogAppended
  \/ LogAppendFailed

Spec == Init /\ [][Next]_vars

\* appendFile always settles; nothing makes the endpoint answer
FairSpec == Spec /\ WF_vars(LogAppended \/ LogAppendFailed)

(***************************************************************************)
(* THE SANITIZERS ALONE: one input, one call.                              *)
(***************************************************************************)
\* longest tail after the scheme, longest string of escapable characters
MaxTail == 2
MaxEscapeLen == 4

SeqsUpTo(A, n) == UNION {[1..k -> A] : k \in 0..n}
UriPrefixes ==
  {<<>>, Chars_http, <<"h", "t", "t", "p", "s", ":", "/", "/">>,
   <<"h", "t", "t", "p", ":", "/">>, <<"f", "t", "p", ":", "/", "/">>,
   <<"x">> \o Chars_http, <<"H", "T", "T", "P", ":", "/", "/">>}
UriAlphabet == UriExcluded \cup {"a", "/", "#"}
EscapeAlphabet == {"\\", "\"", "\n", "\r", "n", "r", "a"}
SanInputs ==
  {p \o t : p \in UriPrefixes, t \in SeqsUpTo(UriAlphabet, MaxTail)}
    \cup SeqsUpTo(EscapeAlphabet, MaxEscapeLen)

SanInit ==
  /\ DispatchInit
  /\ sanIn \in SanInputs
  /\ sanOp = "none"
  /\ sanOut = [ok |-> TRUE, v |-> <<>>]

ApplyString ==
  /\ sanOp = "none"
  /\ sanOp' = "literal"
  /\ sanOut' = [ok |-> TRUE, v |-> sanitizeSparqlString(sanIn)]
  /\ UNCHANGED <<sanIn, dispatchVars>>

ApplyUri ==
  /\ sanOp = "none"
  /\ sanOp' = "uri"
  /\ sanOut' = sanitizeSparqlUri(sanIn)
  /\ UNCHANGED <<sanIn, dispatchVars>>

SanNext == ApplyString \/ ApplyUri

SanitizerSpec == SanInit /\ [][SanNext]_vars

(***************************************************************************)
(* PROPERTIES                                                              *)
(***************************************************************************)
Responded == response.kind = "response"
HandlerSucceeded == outcome.kind = "result" /\ outcome.result.success
SomeRejected == \E i \in DOMAIN calls : calls[i].st = "rejected"
\* every appendFile of the invocation succeeded
LogIntact == Len(log) = logCalls
Logged(summary) == \E l \in DOMAIN log : log[l].summary = summary
\* the holes of every query handed to executeSparql
AllHoles ==
  UNION {{calls[i].query.holes[h] : h \in DOMAIN calls[i].query.holes} : i \in DOMAIN calls}

\* C1: for a composite tool, a response given while one of its sub-queries
\* has failed is a failure whose text is "Error: " and the message of a
\* failed sub-query, nothing of the sub-queries that succeeded; a response
\* that is no failure is given only when every sub-query succeeded.
C1_FanOutAllOrNothing ==
  (tool \in CompositeTools /\ Responded) =>
    /\ SomeRejected =>
         /\ response.isError
         /\ \E i \in DOMAIN calls :
              /\ calls[i].st = "rejected"
              /\ response.text = ErrorText(RejectionMessage(calls[i].answer))
    /\ ~response.isError => AllResolved(calls)

\* a composite tool answered with a failure while one sub-query failed and
\* another had succeeded with rows
C1_Witness ==
  /\ tool \in CompositeTools /\ Responded /\ response.isError
  /\ SomeRejected
  /\ \E i \in DOMAIN calls :
       calls[i].st = "resolved" /\ RowCountOf(calls[i].answer.result) > 0

\* C2: whenever the handler succeeded, the text executeTool emits parses as
\* JSON, the payloads longer than the character limit included.
C2_EmittedTextIsJson ==
  (Responded /\ HandlerSucceeded) => JSONparse(response.text).ok

PaginatedTools == {"list_datasets", "browse_vocabulary", "list_municipalities"}

\* C3: in every paginated response the pagination object read back from the
\* emitted text has has_more = (offset + count < total), and next_offset =
\* offset + count when has_more, else null (count being its own count field).
C3_PaginationInvariant ==
  (tool \in PaginatedTools /\ Responded /\ ~response.isError /\ ~stage.truncated) =>
    LET p == Member(JSONparse(response.text).v, Key("pagination", 10))
        total == Member(p, Key("total", 5))
        next == Member(p, Key("offset", 6)).k + Member(p, Key("count", 5)).k
        more == total.t = "num" /\ next < total.k
    IN /\ Member(p, Key("has_more", 8)) = JBool(more)
       /\ Member(p, Key("next_offset", 11)) = IF more THEN JNum(next) ELSE JNull

SomeInFlight == \E i \in DOMAIN calls : calls[i].st = "inflight"

\* C4: when executeSparql calls are in flight, eventually none is: each has
\* completed with a result or a failure, even when the endpoint never
\* answers.
C4_EveryCallCompletes == SomeInFlight ~> ~SomeInFlight

Forbidden == {" ", "\t", "\n", "\r", "<", ">", "\"", "{", "}", "|", "\\", "^", Backtick}
HasForbidden(chars) == \E i \in DOMAIN chars : chars[i] \in Forbidden
\* the text would end the quoted literal it is written into: a quote or a
\* line break that no backslash escapes, or a backslash left open
RECURSIVE BreaksLiteral(_)
BreaksLiteral(chars) ==
  IF chars = <<>> THEN FALSE
  ELSE IF Head(chars) = "\\"
    THEN Len(chars) < 2 \/ BreaksLiteral(SubSeq(chars, 3, Len(chars)))
  ELSE Head(chars) \in {"\"", "\n", "\r"} \/ BreaksLiteral(Tail(chars))
\* the inverse of the escaping: a backslash and the character after it
\* stand for one character
RECURSIVE Unescape(_)
Unescape(chars) ==
  IF chars = <<>> THEN <<>>
  ELSE IF Head(chars) = "\\" /\ Len(chars) >= 2
    THEN <<CASE chars[2] = "n" -> "\n" [] chars[2] = "r" -> "\r" [] OTHER -> chars[2]>>
           \o Unescape(SubSeq(chars, 3, Len(chars)))
  ELSE <<Head(chars)>> \o Unescape(Tail(chars))
DigitsOnly(chars) == chars # <<>> /\ \A i \in DOMAIN chars : chars[i] \in DigitSet

IsAbsoluteHttp(chars) ==
  \/ StartsWith(chars, <<"h", "t", "t", "p", ":", "/", "/">>) /\ Len(chars) > 7
  \/ StartsWith(chars, <<"h", "t", "t", "p", "s", ":", "/", "/">>) /\ Len(chars) > 8

\* C6: sanitizeSparqlUri(s) fails when s holds whitespace or one of
\* < > " { } | \ ^ and the grave accent, or is no absolute http or https
\* URI (lower-case scheme, ://, at least one more character); otherwise it
\* returns s unchanged.
C6_UriValidation ==
  sanOp = "uri" =>
    IF HasForbidden(sanIn) \/ ~IsAbsoluteHttp(sanIn)
      THEN ~sanOut.ok
      ELSE sanOut.ok /\ sanOut.v = sanIn

\* an https URI was accepted and returned unchanged
C6_Witness ==
  /\ sanOp = "uri" /\ sanOut.ok /\ sanOut.v = sanIn
  /\ StartsWith(sanIn, <<"h", "t", "t", "p", "s">>)

\* C7: unescaping sanitizeSparqlString(s) gives s back, for every s over
\* backslash, quote, newline, carriage return, n, r and an ordinary
\* character; the sanitizer never fails.
C7_RoundTrip ==
  sanOp = "literal" => sanOut.ok /\ Unescape(sanOut.v) = sanIn

\* a string holding a backslash and a quote was escaped
C7_Witness ==
  /\ sanOp = "literal"
  /\ \E i \in DOMAIN sanIn : sanIn[i] = "\\"
  /\ \E i \in DOMAIN sanIn : sanIn[i] = "\""
  /\ sanOut.v # sanIn

\* C8: once an invocation is over, every error raised while serving it (by
\* sanitizeSparqlUri, by executeSparql, or while the truncated response was
\* built) has become a failure response and a log line holding its message
\* (a log line, when appendFile did not fail).
C8_ErrorsCaughtAndLogged ==
  /\ (pc \in {"done", "escaped"} /\ outcome.kind = "thrown") =>
       /\ Responded /\ response.isError
       /\ response.text = ErrorText(outcome.message)
       /\ LogIntact => Logged(ErrorText(outcome.message))
  /\ (pc = "done" /\ HandlerSucceeded /\ stage.at = "catch") =>
       /\ response.isError
       /\ LogIntact => Logged(stage.summary)

\* C9: once an invocation is over and appendFile did not fail, the log holds
\* exactly one line for it.
C9_ExactlyOneLogLine ==
  (pc \in {"done", "escaped"} /\ LogIntact) => Len(log) = 1

\* C10: the text emitted after the handler succeeded is at most
\* CHARACTER_LIMIT characters long, the truncation marker included.
C10_WithinCharacterLimit ==
  (Responded /\ HandlerSucceeded) => TextLen(response.text) <= CHARACTER_LIMIT

\* an oversized payload was answered with the truncation marker
C10_Witness ==
  /\ Responded /\ ~response.isError /\ stage.truncated
  /\ TextLen(JSONstringify(outcome.result.data)) > CHARACTER_LIMIT

\* p holds the first characters of t, chunk by chunk
IsPrefixOf(p, t) ==
  \/ p = <<>>
  \/ /\ Len(p) <= Len(t)
     /\ SubSeq(p, 1, Len(p) - 1) = SubSeq(t, 1, Len(p) - 1)
     /\ p[Len(p)].c = t[Len(p)].c
     /\ p[Len(p)].n <= t[Len(p)].n

\* C11: in the success branch of executeTool, truncateResult returned the
\* serialized text unchanged with truncated = false when it is at most
\* CHARACTER_LIMIT long, and otherwise exactly its first CHARACTER_LIMIT
\* characters with truncated = true.
C11_TruncateResult ==
  stage.at = "success" =>
    LET jsonText == JSONstringify(outcome.result.data) IN
    IF TextLen(jsonText) <= CHARACTER_LIMIT
      THEN stage.text = jsonText /\ ~stage.truncated
      ELSE /\ stage.truncated
           /\ TextLen(stage.text) = CHARACTER_LIMIT
           /\ IsPrefixOf(stage.text, jsonText)

\* a payload one character over the limit was cut to the limit
C11_Witness ==
  /\ stage.at = "success" /\ stage.truncated
  /\ TextLen(JSONstringify(outcome.result.data)) = CHARACTER_LIMIT + 1
  /\ TextLen(stage.text) = CHARACTER_LIMIT

\* some call of the invocation got a success status with a JSON body that
\* lacks the variables header or the results/bindings section
SomeShapeless ==
  \E i \in DOMAIN calls :
    /\ calls[i].st = "resolved"
    /\ ~calls[i].answer.result.shaped \/ ~calls[i].answer.result.hasVars

\* C12: an invocation one of whose calls was answered with a success status
\* and a body that lacks the variables header or the results/bindings
\* section responds with an error,
\* never with a successful empty result.
C12_MalformedBodyFails ==
  (Responded /\ SomeShapeless) => response.isError

\* the text holds the digits d, in this order and next to each other
Carries(text, d) ==
  \E k \in 1..(Len(text) - Len(d) + 1) : SubSeq(text, k, k + Len(d) - 1) = d

\* C13: a call answered with a non-success status is rejected after its one
\* POST, and when no other call of the invocation was rejected the handler
\* ends with the thrown error, whose message carries that status: no result
\* is built from the body.
C13_HttpErrorRejects ==
  \A i \in DOMAIN calls :
    /\ calls[i].posts = 1
    /\ calls[i].answer.kind = "http" =>
         /\ calls[i].st = "rejected"
         /\ (\A j \in DOMAIN calls : j # i => calls[j].st # "rejected") =>
              /\ outcome.kind = "thrown"
              /\ Carries(outcome.message, Digits(calls[i].answer.status))
              /\ Responded => response.isError

\* a 503 answer to the only call of a tool was reported as an error
C13_Witness ==
  /\ Responded /\ Len(calls) = 1
  /\ calls[1].answer = HttpUnavailable
  /\ calls[1].posts = 1
  /\ response.isError

\* the URI arguments the invocation was given
GivenUris == {args.uri, args.uri2} \ {<<>>}

\* C14: an invocation one of whose URI arguments sanitizeSparqlUri rejects has
\* ended in the thrown validation error without any executeSparql call: no
\* request was sent, whatever the tool and however many queries it makes.
C14_InvalidUriNoRequest ==
  (tool # "none" /\ \E u \in GivenUris : ~sanitizeSparqlUri(u).ok) =>
    /\ calls = <<>>
    /\ outcome.kind = "thrown"
    /\ ~Responded

\* inspect_concept, which makes five queries, was given an invalid URI
C14_Witness ==
  /\ tool = "inspect_concept" /\ args.uri = BadUri
  /\ pc = "escaped" /\ calls = <<>>

\* the invocation is one of the two reconciling handlers and it succeeded
Reconciled ==
  /\ \/ tool = "list_provinces"
     \/ tool = "list_municipalities" /\ args.withBelfiore
  /\ HandlerSucceeded

\* the reconciled records of the payload, in either output shape
ReconciledData ==
  IF tool = "list_provinces" THEN outcome.result.data
  ELSE Member(outcome.result.data, Key("municipalities", 14))

\* notation and name of every record of the payload, in order
RecordKeys(data) ==
  IF data.t = "arr"
    THEN [i \in DOMAIN data.items |->
            [notation |-> Member(data.items[i], VarNotation).s,
             name |-> Member(data.items[i], VarName).s]]
    ELSE LET rows == Member(data, Key("rows", 4)).items
         IN [i \in DOMAIN rows |->
               [notation |-> rows[i].items[1].s, name |-> rows[i].items[2].s]]

\* the rows of the primary answer that have a key and a name
PrimaryRows == BindingsOf(calls[1].answer.result)
Named == {i \in DOMAIN PrimaryRows :
            Bound(PrimaryRows[i], VarNotation) /\ Bound(PrimaryRows[i], VarName)}
KeyAt(i) == ValueOf(PrimaryRows[i], VarNotation)
NameAt(i) == ValueOf(PrimaryRows[i], VarName)

\* row i holds the longest name of its key, and is the earliest row that does
Winner(i) ==
  /\ i \in Named
  /\ \A j \in Named : KeyAt(j) = KeyAt(i) =>
       \/ TextLen(NameAt(j)) < TextLen(NameAt(i))
       \/ TextLen(NameAt(j)) = TextLen(NameAt(i)) /\ i <= j

\* C15: the records list_municipalities (withBelfiore) and list_provinces
\* return hold exactly one record per distinct key that has a name, and the
\* name of each is the longest among the primary rows of its key, the
\* earliest row winning among names of equal length.
C15_LongestNamePerKey ==
  Reconciled =>
    LET recs == RecordKeys(ReconciledData) IN
    /\ Len(recs) = Cardinality({KeyAt(i) : i \in Named})
    /\ {recs[k].notation : k \in DOMAIN recs} = {KeyAt(i) : i \in Named}
    /\ \A k \in DOMAIN recs :
         \E i \in Named :
           Winner(i) /\ KeyAt(i) = recs[k].notation /\ NameAt(i) = recs[k].name

\* five rows of two keys, one key with a tie in length and one with a longer
\* name between two shorter ones, were reconciled to two records
C15_Witness ==
  /\ Reconciled
  /\ calls[1].answer = Ok(RDup)
  /\ Len(RecordKeys(ReconciledData)) = 2
  /\ \E k \in 1..2 : RecordKeys(ReconciledData)[k] =
                       [notation |-> Notation(1), name |-> Roma]
  /\ \E k \in 1..2 : RecordKeys(ReconciledData)[k] =
                       [notation |-> Notation(2), name |-> RomaCapitale]

\* the object has a member of this name
HasField(obj, key) == \E i \in DOMAIN obj.members : obj.members[i][1] = key

\* the record carries the lookup's value for its key under the field, and
\* has no such field when the lookup has no value for its key
JoinedOrOmitted(rec, field, lookup) ==
  LET notation == Member(rec, VarNotation).s IN
  IF HasKey(lookup, notation)
    THEN HasField(rec, field) /\ Member(rec, field) = JStr(Get(lookup, notation).value)
    ELSE ~HasField(rec, field)

\* the lookup map built from the answer to call i
LookupOf(i, var) == BuildLookup(BindingsOf(calls[i].answer.result), var, <<>>)

\* C16: in the record-list shape, every record list_municipalities
\* (withBelfiore) and list_provinces return carries, for each auxiliary
\* source, the value its lookup map holds for the record's key, and has no
\* field for a source whose lookup map holds none.
C16_AuxiliaryJoin ==
  (Reconciled /\ ReconciledData.t = "arr") =>
    \A k \in DOMAIN ReconciledData.items :
      LET rec == ReconciledData.items[k] IN
      IF tool = "list_provinces"
        THEN /\ JoinedOrOmitted(rec, VarSigla, LookupOf(2, VarSigla))
             /\ JoinedOrOmitted(rec, VarMetro, LookupOf(3, VarMetro))
        ELSE JoinedOrOmitted(rec, VarBelfiore, LookupOf(2, VarBelfiore))

\* C17: in the pagination object of every paginated payload a numeric total
\* is not less than the count, whatever the endpoint answered to the data
\* query and to the count query.
C17_TotalAtLeastCount ==
  (tool \in PaginatedTools /\ HandlerSucceeded) =>
    LET p == Member(outcome.result.data, Key("pagination", 10))
    IN Member(p, Key("total", 5)).t = "num" =>
         Member(p, Key("total", 5)).k >= Member(p, Key("count", 5)).k

\* a single-query tool succeeded: its payload is the compressed answer
Compressed == tool \in SingleQueryTools /\ HandlerSucceeded
InputRows == BindingsOf(calls[1].answer.result)
TabularRows == Member(outcome.result.data, Key("rows", 4)).items

\* C18: the payload of executeSparqlTool has the shape the row count of the
\* answer selects: the empty list for no rows, for 1 to 5 rows a list with
\* one record per row, in row order, holding the row's bound values, and for
\* more than 5 rows a headers/rows object with one positional row per row,
\* in row order, holding the row's bound values.
C18_ShapeByRowCount ==
  Compressed =>
    LET data == outcome.result.data
        n == Len(InputRows)
    IN /\ n = 0 => data = JArr(<<>>)
       /\ (n >= 1 /\ n <= TabularThreshold) =>
            /\ data.t = "arr" /\ Len(data.items) = n
            /\ \A r \in 1..n :
                 /\ data.items[r].t = "obj"
                 /\ Len(data.items[r].members) = Len(BoundCells(InputRows[r]))
                 /\ \A i \in DOMAIN InputRows[r] : IsBinding(InputRows[r][i]) =>
                      /\ HasField(data.items[r], InputRows[r][i].k)
                      /\ Member(data.items[r], InputRows[r][i].k)
                           = JStr(InputRows[r][i].b.value)
       /\ n > TabularThreshold =>
            /\ data.t = "obj" /\ HasField(data, Key("headers", 7))
            /\ Len(TabularRows) = n
            /\ \A r \in 1..n : \A i \in DOMAIN InputRows[r] : IsBinding(InputRows[r][i]) =>
                 \E h \in DOMAIN TabularRows[r].items :
                   TabularRows[r].items[h] = JStr(InputRows[r][i].b.value)

\* an answer of exactly five rows came back as five records, and so is on
\* the record-list side of the threshold
C18_Witness ==
  /\ Compressed /\ calls[1].answer = Ok(RDup)
  /\ Len(InputRows) = TabularThreshold
  /\ outcome.result.data.t = "arr" /\ Len(outcome.result.data.items) = TabularThreshold

\* C19: for an answer with declared variables and more than 5 rows, the
\* headers are the declared variables in their order, and every row has one
\* cell per header: the string of the value bound to that variable in the
\* row, or null when the row does not bind it.
C19_TabularAligned ==
  (Compressed /\ calls[1].answer.result.hasVars /\ Len(InputRows) > TabularThreshold) =>
    LET declared == calls[1].answer.result.vars IN
    /\ Member(outcome.result.data, Key("headers", 7))
         = JArr([i \in DOMAIN declared |-> JStr(declared[i])])
    /\ \A r \in DOMAIN InputRows :
         /\ Len(TabularRows[r].items) = Len(declared)
         /\ \A i \in DOMAIN declared :
              TabularRows[r].items[i] =
                IF HasVar(InputRows[r], declared[i])
                  THEN JStr(ValueOf(InputRows[r], declared[i])) ELSE JNull

\* seven rows, the fourth without a name: its row holds a null in the name
\* column
C19_Witness ==
  /\ Compressed /\ calls[1].answer = Ok(RSix)
  /\ Len(TabularRows) = Len(InputRows)
  /\ TabularRows[4].items = <<JStr(Notation(4)), JNull>>

\* the response executeTool gives for a handler outcome when every append to
\* the log succeeds
ResponseFor(o) ==
  IF o.kind = "thrown" THEN Response(ErrorText(o.message), TRUE)
  ELSE IF ~o.result.success THEN Response(ErrorText(o.result.error), TRUE)
  ELSE LET tr == truncateResult(JSONstringify(o.result.data)) IN
    IF ~tr.truncated THEN Response(tr.text, FALSE)
    ELSE LET parsed == JSONparse(TruncatedPrefix(tr.text)) IN
      IF parsed.ok THEN Response(JSONstringify(TruncationMarker(parsed.v)), FALSE)
      ELSE Response(ErrorText(JsonSyntaxErrorMessage), TRUE)

\* some append of the invocation failed
AppendFailed == Len(log) < logCalls

\* C20: the response of an invocation is the one its handler's outcome
\* determines, whether the appends to the usage log succeeded or failed.
C20_LogFailureHarmless ==
  Responded => response = ResponseFor(outcome)

\* an invocation whose only append failed answered with its result
C20_Witness ==
  /\ Responded /\ AppendFailed /\ log = <<>>
  /\ ~response.isError
  /\ response = ResponseFor(outcome)

\* C21: the process has exited only when main failed to connect, before any
\* invocation was served; after an invocation ended, with a response or with
\* an escaped rejection, the server can go on to serve the next one.
C21_NoExitOnToolFailure ==
  /\ pc = "exited" => tool = "none" /\ calls = <<>> /\ logCalls = 0
  /\ pc \in {"done", "escaped"} => ENABLED Return

\* an invocation ended with an error response and the server goes on
C21_Witness ==
  /\ pc = "done" /\ Responded /\ response.isError
  /\ ENABLED Return

\* C22: when 10 s have passed since preview_distribution began its fetch and
\* the response (headers and body) was not complete, the fetch has been
\* aborted and the handler has ended with the failure.
C22_PreviewDeadline ==
  preview.expired =>
    /\ preview.st = "over"
    /\ preview.timer = "fired"
    /\ outcome.kind = "thrown"

\* the error entries of the file that was read, in log order
ErrorsInFile == CountLines(SplitLines(Trim(fileRead)), NoUsage).errors
\* the lines of the file that was read that are JSON
WellFormedLines ==
  LET lines == SplitLines(Trim(fileRead))
  IN {k \in DOMAIN lines : Trim(lines[k]) # <<>> /\ JSONparse(Trim(lines[k])).ok}

\* C23: the report of analyze_usage holds in recent_errors the last 5 of the
\* distinct error entries of the log, in log order, and in total_calls the
\* number of log lines that are well-formed.
C23_RecentErrors ==
  (tool = "analyze_usage" /\ HandlerSucceeded /\ fileRead # NoFile) =>
    LET distinct == Distinct(ErrorsInFile, <<>>)
        first == IF Len(distinct) > ErrorsKept THEN Len(distinct) - ErrorsKept + 1 ELSE 1
        last == SubSeq(distinct, first, Len(distinct))
    IN /\ Member(outcome.result.data, Key("recent_errors", 13))
            = JArr([i \in DOMAIN last |-> JStr(last[i])])
       /\ Member(outcome.result.data, Key("total_calls", 11))
            = JNum(Cardinality(WellFormedLines))

\* C24: while a sub-query of a composite tool is in flight, the tool has
\* returned no response, success or failure, and no line has been written to
\* the usage log.
C24_JoinBeforeOutput ==
  (tool \in CompositeTools /\ SomeInFlight) => ~Responded /\ log = <<>>

\* C24, amended: while a sub-query of a composite tool is in flight, the
\* handler has not produced a result; a response returned or a log line
\* written by then reports the failure of a sub-query that was rejected.
C24_NoSuccessBeforeJoin ==
  (tool \in CompositeTools /\ SomeInFlight) =>
    /\ outcome.kind # "result"
    /\ pc # "awaiting" => SomeRejected /\ outcome.kind = "thrown"
    /\ Responded => response.isError
    /\ \A l \in DOMAIN log : log[l].summary = ErrorText(outcome.message)

\* a composite tool answered with the failure of one sub-query and wrote its
\* log line while another sub-query was in flight
C24_Witness ==
  /\ tool \in CompositeTools /\ SomeInFlight
  /\ Responded /\ response.isError
  /\ Len(log) = 1

\* the calls of the fan-out whose record differs after the step
Changed == {i \in DOMAIN calls : i \in DOMAIN calls' /\ calls'[i] # calls[i]}

\* C25: in every step of an invocation of a composite tool, a call changes
\* only by completing with its own answer, one call per step, so that the
\* failure of a call leaves its siblings in flight; and a call that
\* completes after the handler has ended changes neither the outcome, the
\* response nor the usage log, and starts no further logUsage call.
C25_SiblingsNotCancelled ==
  [][(tool \in CompositeTools /\ tool' = tool) =>
       /\ Cardinality(Changed) <= 1
       /\ \A i \in Changed :
            /\ calls[i].st = "inflight"
            /\ calls'[i].st # "inflight" /\ calls'[i].answer # NoAnswer
       /\ (Changed # {} /\ pc # "awaiting") =>
            UNCHANGED <<pc, outcome, stage, log, logCalls, response>>]_vars

\* two sub-queries of one fan-out were rejected: the second rejection came
\* after the tool had failed, and the tool logged and answered once
C25_Witness ==
  /\ tool \in CompositeTools /\ Responded /\ response.isError
  /\ Cardinality({i \in DOMAIN calls : calls[i].st = "rejected"}) >= 2
  /\ \E i \in DOMAIN calls : calls[i].st = "resolved"
  /\ logCalls = 1

\* the number of consecutive backslashes that end just before position i
BackslashesBefore(chars, i) ==
  CHOOSE k \in 0..(i - 1) :
    /\ \A j \in (i - k)..(i - 1) : chars[j] = "\\"
    /\ (k < i - 1 => chars[i - k - 1] # "\\")

\* C26: the output of sanitizeSparqlString holds no raw newline and no raw
\* carriage return, every double quote in it follows an odd number of
\* consecutive backslashes, and the output cannot end the quoted literal it
\* is written into.
C26_EscapeOrder ==
  sanOp = "literal" =>
    /\ \A i \in DOMAIN sanOut.v :
         /\ sanOut.v[i] \notin {"\n", "\r"}
         /\ sanOut.v[i] = "\"" => BackslashesBefore(sanOut.v, i) % 2 = 1
    /\ ~BreaksLiteral(sanOut.v)

\* a string holding a backslash just before a quote, and a line break, was
\* escaped: the quote follows three backslashes
C26_Witness ==
  /\ sanOp = "literal"
  /\ \E i \in DOMAIN sanIn : i > 1 /\ sanIn[i] = "\"" /\ sanIn[i - 1] = "\\"
  /\ \E i \in DOMAIN sanIn : sanIn[i] \in {"\n", "\r"}
  /\ \E i \in DOMAIN sanOut.v : sanOut.v[i] = "\"" /\ BackslashesBefore(sanOut.v, i) = 3

\* C27: for an answer of 1 to 5 rows, the record of a row has one key per
\* variable the row binds and no other key (none for a variable that is
\* absent from the row or null in it), and each key maps to a string, the
\* value field of the binding, whatever its type, datatype or language.
C27_RecordsHoldBoundOnly ==
  (Compressed /\ Len(InputRows) >= 1 /\ Len(InputRows) <= TabularThreshold) =>
    LET records == outcome.result.data.items IN
    /\ Len(records) = Len(InputRows)
    /\ \A r \in DOMAIN InputRows :
         LET members == records[r].members
             row == InputRows[r]
         IN /\ {members[m][1] : m \in DOMAIN members}
                 = {row[i].k : i \in {j \in DOMAIN row : IsBinding(row[j])}}
            /\ \A m \in DOMAIN members :
                 /\ members[m][2].t = "str"
                 /\ \E i \in DOMAIN row :
                      /\ row[i].k = members[m][1] /\ IsBinding(row[i])
                      /\ members[m][2] = JStr(row[i].b.value)
            /\ \A m1, m2 \in DOMAIN members :
                 members[m1][1] = members[m2][1] => m1 = m2

\* three rows came back as three records: the first with both keys, their
\* language tag and datatype gone, the other two with the notation only
C27_Witness ==
  /\ Compressed /\ calls[1].answer = Ok(RSparse)
  /\ outcome.result.data.items =
       <<JObj(<< <<VarNotation, JStr(Notation(1))>>, <<VarName, JStr(Roma)>> >>),
         JObj(<< <<VarNotation, JStr(Notation(2))>> >>),
         JObj(<< <<VarNotation, JStr(Notation(3))>> >>)>>

\* key a comes before key b: at the first position where they differ a has
\* the smaller digit, or a ends there and b goes on
Precedes(a, b) ==
  \E p \in 1..(Len(a) + 1) :
    /\ p <= Len(b)
    /\ \A q \in 1..(p - 1) : a[q] = b[q]
    /\ p <= Len(a) => DigitValue(a[p].c) < DigitValue(b[p].c)

\* C28: the records list_municipalities (withBelfiore) and list_provinces
\* return are in strictly ascending order of their key, in the record-list
\* shape and in the tabular shape alike: every record's key comes before
\* the key of the record after it, so no two adjacent records are out of
\* order and no key occurs twice.
C28_SortedByKey ==
  Reconciled =>
    LET recs == RecordKeys(ReconciledData) IN
    /\ \A k \in 1..(Len(recs) - 1) : Precedes(recs[k].notation, recs[k + 1].notation)
    /\ \A k, l \in DOMAIN recs : recs[k].notation = recs[l].notation => k = l

\* primary rows in descending key order came back as six tabular rows
\* starting at the smallest key
C28_Witness ==
  /\ Reconciled
  /\ calls[1].answer = Ok(RSix)
  /\ ReconciledData.t = "obj"
  /\ Len(RecordKeys(ReconciledData)) = 6
  /\ RecordKeys(ReconciledData)[1].notation = Notation(1)
  /\ RecordKeys(ReconciledData)[6].notation = Notation(6)

\* C29: an invocation whose handler returned success = true is answered
\* without the isError flag, and every line the usage log holds for it is a
\* Success line.
C29_SuccessNeverError ==
  (Responded /\ HandlerSucceeded) =>
    /\ ~response.isError
    /\ \A l \in DOMAIN log : Head(log[l].summary) = Word("Success", 7)

\* a composite tool has answered and every call of its fan-out is over
FanOutOver == tool \in CompositeTools /\ calls # <<>> /\ Responded /\ ~SomeInFlight
\* the answers of the fan-out, each in the slot of the call that got it
AnswersBySlot == [i \in DOMAIN calls |-> calls[i].answer]
\* the response when the calls complete in call order: the failure of the
\* first call that failed, else what the handler makes of the results
InCallOrder ==
  IF SomeRejected
    THEN LET first == CHOOSE i \in DOMAIN calls :
                        /\ calls[i].st = "rejected"
                        /\ \A j \in 1..(i - 1) : calls[j].st # "rejected"
         IN Response(ErrorText(RejectionMessage(AnswersBySlot[first])), TRUE)
    ELSE ResponseFor([kind |-> "result",
                      result |-> HandlerResult(tool, args,
                                   [i \in DOMAIN calls |-> AnswersBySlot[i].result])])

\* C30: once every sub-query of a composite tool is over, the response is
\* the one the same answers give when the sub-queries complete in call
\* order, whatever order they completed in.
C30_OrderIndependent ==
  FanOutOver => response = InCallOrder

\* C30 (amended): when every sub-query succeeded the response is the one
\* the answers give in call order, whatever order they arrived in; when
\* some failed, the response is an error whose message is that of one of
\* the failed sub-queries.
C30_OrderIndependentOnSuccess ==
  FanOutOver =>
    IF SomeRejected
      THEN /\ response.isError
           /\ \E i \in DOMAIN calls :
                /\ calls[i].st = "rejected"
                /\ response.text = ErrorText(RejectionMessage(AnswersBySlot[i]))
      ELSE response = InCallOrder

\* list_provinces answered from three different results, one per call
C30_Witness ==
  /\ FanOutOver /\ tool = "list_provinces" /\ ~SomeRejected
  /\ AnswersBySlot = <<Ok(RDup), Ok(RAux(VarSigla)), Ok(REmpty)>>
  /\ ~response.isError

====
